---- MODULE Spec2Model ----
(***************************************************************************)
(* A model of the express-template REST API: the token service             *)
(* (utils/jwt.js), the two authorization gates                             *)
(* (middlewares/authorization.js), the authentication controller           *)
(* (signup, signin, refresh), the todo controller and the todo and user    *)
(* tables behind the query builder.                                        *)
(*                                                                         *)
(* A request is processed by a chain of middleware functions.  Each        *)
(* function of the chain is one action; a request occupies a slot of reqs  *)
(* from its first middleware to the moment its response is sent.  Several  *)
(* requests are in flight at once and their steps interleave.              *)
(***************************************************************************)
EXTENDS Integers, Sequences, FiniteSets, TLC

VARIABLES env, clock, users, todos, reqs, rate

vars == <<env, clock, users, todos, reqs, rate>>

(***************************************************************************)
(* Bounds of the model.                                                    *)
(***************************************************************************)
\* The clock (seconds, as jsonwebtoken counts them) runs from 0 to MaxClock.
MaxClock == 3
\* ACCESS_TOKEN_EXPIRES_IN and REFRESH_TOKEN_EXPIRES_IN, in clock units.
AccessTtl == 1
RefreshTtl == 2

\* The request slots: two requests may be in flight at the same time.
Reqs == {"r1", "r2"}
\* Identifiers the database can hold.
UserIds == {"u1", "u2", "u3"}
TodoIds == {"t1", "t2", "t3"}
IdRank(id) == CASE id = "u1" -> 1 [] id = "u2" -> 2 [] OTHER -> 3

\* "-" stands for undefined / absent wherever a string is expected.
Undef == "-"

(***************************************************************************)
(* Environment (utils/validate-env.js).  A secret is modelled by its name  *)
(* and its length; "kShort" is shorter than the 32 characters the schema   *)
(* demands.                                                                *)
(***************************************************************************)
MinSecretLen == 32

Secrets == {"kA", "kB", "kShort"}

SecretLen(s) == IF s = "kShort" THEN 8 ELSE 32

\* envSchema: both secrets are strings of at least 32 characters.  Nothing
\* in the schema relates the two secrets to each other.
EnvSchemaAccepts(e) ==
    /\ SecretLen(e.ACCESS_TOKEN_SECRET) >= MinSecretLen
    /\ SecretLen(e.REFRESH_TOKEN_SECRET) >= MinSecretLen

\* validateEnv: the process exits unless the schema accepts the environment.
NodeEnvs == {"development", "production"}

ValidEnvs ==
    {e \in [ACCESS_TOKEN_SECRET : Secrets, REFRESH_TOKEN_SECRET : Secrets,
            NODE_ENV : NodeEnvs] :
        EnvSchemaAccepts(e)}

(***************************************************************************)
(* Token service (utils/jwt.js over jsonwebtoken, HS256).                  *)
(*                                                                         *)
(* A token is [id, iat, exp, sig]: the payload {id, iat, exp} and the key  *)
(* that produced its HMAC.  Verifying recomputes the HMAC with the         *)
(* verifier's secret, so a signature is good exactly when the keys are     *)
(* equal.  sig = "-" is an absent or empty header, sig = "malformed" a     *)
(* string that is no JWS, sig = "kForged" a token signed by a key the      *)
(* server never held.                                                      *)
(***************************************************************************)
NoToken == [id |-> Undef, iat |-> 0, exp |-> 0, sig |-> Undef]

MalformedToken == [id |-> Undef, iat |-> 0, exp |-> 0, sig |-> "malformed"]

\* jwt.sign({id}, secret, {algorithm: "HS256", expiresIn: ttl})
JwtSign(id, secret, ttl, now) ==
    [id |-> id, iat |-> now, exp |-> now + ttl, sig |-> secret]

\* An access token signed with the key of the refresh tokens.
generateAccessTokenRefreshKeyM(id, e, now) ==
    JwtSign(id, e.REFRESH_TOKEN_SECRET, AccessTtl, now)

generateAccessToken(id, e, now) ==
    JwtSign(id, e.ACCESS_TOKEN_SECRET, AccessTtl, now)

generateRefreshToken(id, e, now) ==
    JwtSign(id, e.REFRESH_TOKEN_SECRET, RefreshTtl, now)

\* An error object: its name, its status (0: it has none) and its message.
Err(name, status, message) ==
    [name |-> name, status |-> status, message |-> message]

NoErr == Err("ok", 0, "")

\* new HttpError(status, message): this.name = "HttpError"
HttpError(status, message) == Err("HttpError", status, message)

\* A verifier that tolerates a token for one more unit after its expiry.
JwtVerifyExpiredM(tok, secret, now) ==
    IF tok.sig = "malformed"
    THEN [err |-> Err("JsonWebTokenError", 0, "jwt malformed"), id |-> Undef]
    ELSE IF tok.sig # secret
    THEN [err |-> Err("JsonWebTokenError", 0, "invalid signature"), id |-> Undef]
    ELSE IF now > tok.exp + 1
    THEN [err |-> Err("TokenExpiredError", 0, "jwt expired"), id |-> Undef]
    ELSE [err |-> NoErr, id |-> tok.id]

\* A verification that refuses the tokens issued before the latest signup.
JwtVerifyRevokedBySignupM(tok, secret, now) ==
    IF tok.sig = "malformed"
    THEN [err |-> Err("JsonWebTokenError", 0, "jwt malformed"), id |-> Undef]
    ELSE IF tok.sig # secret
    THEN [err |-> Err("JsonWebTokenError", 0, "invalid signature"), id |-> Undef]
    ELSE IF now >= tok.exp \/ \E u \in users : u.created_at > tok.iat
    THEN [err |-> Err("TokenExpiredError", 0, "jwt expired"), id |-> Undef]
    ELSE [err |-> NoErr, id |-> tok.id]

\* jwt.verify(token, secret, {algorithms: ["HS256"]}): the structure is
\* checked first, then the signature, then the expiry (clock >= exp).
\* The result is [err, id]: err = NoErr and the decoded id, or the error
\* thrown.
JwtVerify(tok, secret, now) ==
    IF tok.sig = "malformed"
    THEN [err |-> Err("JsonWebTokenError", 0, "jwt malformed"), id |-> Undef]
    ELSE IF tok.sig # secret
    THEN [err |-> Err("JsonWebTokenError", 0, "invalid signature"), id |-> Undef]
    ELSE IF now >= tok.exp
    THEN [err |-> Err("TokenExpiredError", 0, "jwt expired"), id |-> Undef]
    ELSE [err |-> NoErr, id |-> tok.id]

verifyAccessToken(tok, e, now) == JwtVerify(tok, e.ACCESS_TOKEN_SECRET, now)

verifyRefreshToken(tok, e, now) == JwtVerify(tok, e.REFRESH_TOKEN_SECRET, now)

(***************************************************************************)
(* Responses (utils/response.js, middlewares/error.js).                    *)
(***************************************************************************)
\* data: null
NullData == [null |-> TRUE]

\* apiResponse({message, data}) sent with a status.
Response(status, message, data) ==
    [status |-> status, message |-> message, data |-> data]

NoResponse == Response(0, "", NullData)

\* errorHandler: status err.status || 500; outside production the message
\* is err.message, in production a message that is no HttpError's is
\* replaced by the generic one.
errorHandler(err, nodeEnv) ==
    LET isHttpError == err.name = "HttpError"
        isProduction == nodeEnv = "production"
        own == IF err.message # "" THEN err.message ELSE "Internal Server Error"
        clientMessage ==
            IF isProduction /\ ~isHttpError THEN "Internal Server Error" ELSE own
    IN  Response(IF err.status # 0 THEN err.status ELSE 500, clientMessage, NullData)

(***************************************************************************)
(* Authorization gates (middlewares/authorization.js).                     *)
(*                                                                         *)
(* The headers of a request are [xaccess, xrefresh, authorization], each a *)
(* token or NoToken.  A gate's outcome is [accepted, user, err,            *)
(* verifyCalls, nextCalls]: whether next() was called without an error,    *)
(* the identity bound to req.user, the error passed to next(err), and how  *)
(* often the verifier and next were called.                                *)
(***************************************************************************)
Headers(xa, xr, au) == [xaccess |-> xa, xrefresh |-> xr, authorization |-> au]

\* !token: the header is absent or the empty string.
Falsy(tok) == tok.sig = Undef

GateOutcome(accepted, user, err, verifyCalls, nextCalls) ==
    [accepted |-> accepted, user |-> user, err |-> err,
     verifyCalls |-> verifyCalls, nextCalls |-> nextCalls]

\* A gate that would take its token from whichever header carries one.
AccessHeaderAnyM(h) ==
    IF ~Falsy(h.xaccess) THEN h.xaccess
    ELSE IF ~Falsy(h.authorization) THEN h.authorization
    ELSE h.xrefresh

\* req.headers["x-access-token"]
AccessHeader(h) == h.xaccess

\* req.headers["x-refresh-token"]
RefreshHeader(h) == h.xrefresh

\* A catch block without the TokenExpiredError branch.
AccessCatchNoExpiryM(error) ==
    IF error.name = "JsonWebTokenError" THEN HttpError(401, "Invalid token")
    ELSE error

\* The catch block of requireAccessToken: the error handed to next().
AccessCatch(error) ==
    IF error.name = "JsonWebTokenError" THEN HttpError(401, "Invalid token")
    ELSE IF error.name = "TokenExpiredError" THEN HttpError(401, "Token expired")
    ELSE error

\* The catch block of requireRefreshToken.
RefreshCatch(error) ==
    IF error.name = "JsonWebTokenError" THEN HttpError(401, "Invalid token")
    ELSE IF error.name = "TokenExpiredError" THEN HttpError(401, "Token expired")
    ELSE error

\* A gate without the !accessToken test.
requireAccessTokenNoCheckM(h, e, now) ==
    LET accessToken == AccessHeader(h)
        decoded == verifyAccessToken(accessToken, e, now)
    IN  IF decoded.err = NoErr
        THEN GateOutcome(TRUE, decoded.id, NoErr, 1, 1)
        ELSE GateOutcome(FALSE, Undef, AccessCatch(decoded.err), 1, 1)

\* requireAccessToken: the header, the !accessToken test, verifyAccessToken,
\* req.user = decoded, next(); every error goes through the catch block.
requireAccessToken(h, e, now) ==
    LET accessToken == AccessHeader(h)
        decoded == verifyAccessToken(accessToken, e, now)
    IN  IF Falsy(accessToken)
        THEN GateOutcome(FALSE, Undef,
                         AccessCatch(HttpError(401, "No token provided")), 0, 1)
        ELSE IF decoded.err = NoErr
        THEN GateOutcome(TRUE, decoded.id, NoErr, 1, 1)
        ELSE GateOutcome(FALSE, Undef, AccessCatch(decoded.err), 1, 1)

\* requireRefreshToken: the same with the refresh header and verifier.
requireRefreshToken(h, e, now) ==
    LET refreshToken == RefreshHeader(h)
        decoded == verifyRefreshToken(refreshToken, e, now)
    IN  IF Falsy(refreshToken)
        THEN GateOutcome(FALSE, Undef,
                         RefreshCatch(HttpError(401, "No token provided")), 0, 1)
        ELSE IF decoded.err = NoErr
        THEN GateOutcome(TRUE, decoded.id, NoErr, 1, 1)
        ELSE GateOutcome(FALSE, Undef, RefreshCatch(decoded.err), 1, 1)

(***************************************************************************)
(* Credential service (utils/argon2.js).  A digest records the algorithm   *)
(* and the plaintext it was made from; verification succeeds exactly for   *)
(* that plaintext.                                                         *)
(***************************************************************************)
hashPassword(plain) == [alg |-> "argon2id", plain |-> plain]

\* argon2.verify(digest, plain)
verifyPassword(digest, plain) == digest.plain = plain

\* argon2.verify throws, whatever the plaintext, when the stored string is
\* not in the format of a digest.
verifyPasswordThrows(digest) == digest.alg # "argon2id"

(***************************************************************************)
(* The users table (models/users.js).  A row is                            *)
(* [id, username, password, created_at].                                   *)
(***************************************************************************)
\* userModel.findOne / findOneWithPassword({username}): the matching rows
\* (.first() takes one of them).
UsersWhereUsername(tbl, username) == {u \in tbl : u.username = username}

\* The row the seed script creates (database/seeds/01_users.js).
SeedUsers ==
    {[id |-> "u1", username |-> "alice", password |-> hashPassword("password1"),
      created_at |-> 0]}

(***************************************************************************)
(* The todos table (models/todos.js).  A row is                             *)
(* [id, user_id, title, updated_at]; the other columns (description,       *)
(* is_completed, created_at) are written by the same statements as title   *)
(* and are never read by a condition.                                      *)
(***************************************************************************)
\* TODO_COLUMNS: what select and returning give back (no user_id).
TodoColumns(row) ==
    [id |-> row.id, title |-> row.title, updated_at |-> row.updated_at]

\* A condition on the id alone.
TodosWhereAnyOwnerM(tbl, id, userId) == {t \in tbl : t.id = id}

\* .where({id, user_id})
TodosWhere(tbl, id, userId) == {t \in tbl : t.id = id /\ t.user_id = userId}

\* todoModel.findOne({id, user_id}): select ... where ... first()
TodosFindOne(tbl, id, userId) ==
    {TodoColumns(t) : t \in TodosWhere(tbl, id, userId)}

\* todoModel.create(todo): insert ... returning TODO_COLUMNS
TodosCreate(tbl, row) == tbl \cup {row}

\* todoModel.update({id, user_id}, {title, ..., updated_at}): the table
\* afterwards.
TodosUpdate(tbl, id, userId, title, now) ==
    {IF t \in TodosWhere(tbl, id, userId)
     THEN [t EXCEPT !.title = title, !.updated_at = now] ELSE t : t \in tbl}

\* ... and the rows it returns.
TodosUpdateReturning(tbl, id, userId, title, now) ==
    {TodoColumns([t EXCEPT !.title = title, !.updated_at = now]) :
        t \in TodosWhere(tbl, id, userId)}

\* todoModel.remove({id, user_id})
TodosRemove(tbl, id, userId) == tbl \ TodosWhere(tbl, id, userId)

Range(seq) == {seq[i] : i \in 1..Len(seq)}

\* A bulk delete without the owner condition.
TodosRemoveManyAnyOwnerM(tbl, ids, userId) ==
    {t \in tbl : ~(t.id \in Range(ids))}

\* A delete that stops after the first identifier of the list.
TodosRemoveManyFirstOnlyM(tbl, ids, userId) ==
    {t \in tbl : ~(ids # <<>> /\ t.id = ids[1] /\ t.user_id = userId)}

\* todoModel.removeMany(ids, {user_id}): delete ... where id in (ids) and
\* user_id = ..., one statement.
TodosRemoveMany(tbl, ids, userId) ==
    {t \in tbl : ~(t.id \in Range(ids) /\ t.user_id = userId)}

(***************************************************************************)
(* Requests in flight.                                                     *)
(*                                                                         *)
(* pc: "idle" (the slot is free), "handler" (the gate called next(); the   *)
(* route handler has not run), "signup2" (signup awaits after its lookup), *)
(* "getTodos2" (getTodos awaits its two reads), "done" (the response is    *)
(* written; res holds it).  gate, verifyCalls, nextCalls, dbCalls,         *)
(* credCalls (calls of hashPassword and verifyPassword) and handlerRan     *)
(* record what the request has done so far; in holds the inputs            *)
(* the handler read, at the time its first middleware ran, count and rows  *)
(* what the reads of getTodos returned so far, countArgs and findArgs what *)
(* the two reads were called with, countFrom and rowsFrom the table as it  *)
(* was when each of them was executed.                                     *)
(***************************************************************************)
NoHeaders == Headers(NoToken, NoToken, NoToken)

\* The inputs of a request that sends nothing.  A number that is not sent
\* is -1, a string that is not sent is Undef.  id and user_id are keys of a
\* request body that no schema knows.
NoInput ==
    [todo_id |-> Undef, title |-> Undef, id |-> Undef, user_id |-> Undef,
     ids |-> <<>>,
     username |-> Undef, password |-> Undef, confirmation_password |-> Undef,
     page |-> -1, limit |-> -1, sort_by |-> Undef, sort_order |-> Undef,
     search |-> Undef]

\* What a read of getTodos was called with: nothing yet.
NoReadArgs ==
    [user_id |-> Undef, search |-> <<>>, searchColumns |-> <<>>,
     limit |-> -1, offset |-> -1, column |-> Undef, order |-> Undef]

IdleReq ==
    [pc |-> "idle", route |-> Undef, hdr |-> NoHeaders, user |-> Undef,
     gate |-> "none", verifyCalls |-> 0, nextCalls |-> 0, dbCalls |-> 0,
     credCalls |-> 0, handlerRan |-> FALSE, in |-> NoInput, res |-> NoResponse,
     at |-> 0,
     count |-> -1, rows |-> <<>>, rowsRead |-> FALSE,
     countFrom |-> {}, rowsFrom |-> {}, countArgs |-> NoReadArgs,
     findArgs |-> NoReadArgs]

(***************************************************************************)
(* The rate limiters (middlewares/rate-limit.js).  rate holds, for the one *)
(* client whose requests are counted, what authLimiter keeps: max, the     *)
(* limit it was constructed with, and count and resetAt, the entry of the  *)
(* client in its store.  made and madeAt are kept for the properties only: *)
(* the number of requests of the client that arrived at the router at the  *)
(* instant madeAt.  Where no request passes through Arrive, the requests   *)
(* are those of clients below every limit, and rate stays as it is.        *)
(***************************************************************************)
\* parseInt(process.env.RATE_LIMIT_AUTH_MAX) when the variable is not set.
\* rate-limit.js is evaluated when index.js imports the routes, before the
\* body of index.js calls validateEnv(), which writes the defaults.
NaN == -1
\* RATE_LIMIT_AUTH_MAX: joi.number().integer().min(1).default(10)
DefaultAuthMax == 10
\* windowMs, in clock units
WindowTicks == 1
\* RATE_LIMIT_GENERAL_MAX as the environment of the model sets it
RateLimitGeneralMax == 2

NoRate == [max |-> NaN, count |-> 0, resetAt |-> 0, madeAt |-> 0, made |-> 0]

\* The values authLimiter can be constructed with: the variable is not set,
\* or set to 1 or to 2.
AuthMaxSettings == {NaN, 1, 2}

AuthRoutes == {"signup", "signin", "refresh"}

\* The store's increment for the client: a new window starts with the
\* first request after the last one has ended.
Hit(store, now) ==
    IF now >= store.resetAt
    THEN [count |-> 1, resetAt |-> now + WindowTicks]
    ELSE [count |-> store.count + 1, resetAt |-> store.resetAt]

\* A limiter that lets one request more through.
BlockedOneLaterM(max, totalHits) == max # NaN /\ totalHits > max + 1

\* totalHits > limit, which is false when the limit is NaN
Blocked(max, totalHits) == max # NaN /\ totalHits > max

\* The first function of a route may start: the slot is free, or the
\* request has arrived for this route and passed what is mounted before.
RouteStart(q, route) == q.pc = "idle" \/ (q.pc = "admitted" /\ q.route = route)

\* A response is written and sent in the same turn of the event loop: no
\* other callback runs while a slot is "done".
NoneDone == \A r \in Reqs : reqs[r].pc # "done"

Init ==
    /\ env \in ValidEnvs
    /\ clock = 0
    /\ users = SeedUsers
    /\ todos = {}
    /\ reqs = [r \in Reqs |-> IdleReq]
    /\ rate = NoRate

\* Time passes.
Tick ==
    /\ NoneDone
    /\ clock < MaxClock
    /\ clock' = clock + 1
    /\ UNCHANGED <<env, users, todos, reqs, rate>>

\* res.json(...) has been sent: the request is over.
Respond(r) ==
    /\ reqs[r].pc = "done"
    /\ reqs' = [reqs EXCEPT ![r] = IdleReq]
    /\ UNCHANGED <<env, clock, users, todos, rate>>

(***************************************************************************)
(* The gates as middleware: the first function of a gated route.           *)
(***************************************************************************)
\* An identity kept in a variable that all waiting requests share.
BindUserSharedM(rs, r, id) ==
    [q \in Reqs |-> IF q = r \/ rs[q].pc = "handler"
                    THEN [rs[q] EXCEPT !.user = id] ELSE rs[q]]

\* req.user = decoded: a property of this request's own req object.
BindUser(rs, r, id) == [rs EXCEPT ![r].user = id]

\* A chain that goes on to the handler whatever the gate handed to next.
AfterGateFallThroughM(route, h, g) ==
    LET seen == [IdleReq EXCEPT !.route = route, !.hdr = h, !.at = clock,
                                !.verifyCalls = g.verifyCalls,
                                !.nextCalls = g.nextCalls]
    IN  [seen EXCEPT !.pc = "handler",
                     !.gate = IF g.accepted THEN "accepted" ELSE "rejected"]

\* The slot of a request after its gate returned outcome g: next() leads to
\* the route's handler, next(err) to the error handler, which answers.
AfterGate(route, h, g) ==
    LET seen == [IdleReq EXCEPT !.route = route, !.hdr = h, !.at = clock,
                                !.verifyCalls = g.verifyCalls,
                                !.nextCalls = g.nextCalls]
    IN  IF g.accepted
        THEN [seen EXCEPT !.pc = "handler", !.gate = "accepted"]
        ELSE [seen EXCEPT !.pc = "done", !.gate = "rejected",
                          !.res = errorHandler(g.err, env.NODE_ENV)]

TodoRoutes ==
    {"getTodos", "getTodo", "createTodo", "updateTodo", "deleteTodo", "deleteTodos"}

\* router.use("/todos", requireAccessToken, todosRoutes)
AccessGate(r, route, h) ==
    /\ NoneDone
    /\ RouteStart(reqs[r], route)
    /\ route \in TodoRoutes
    /\ LET g == requireAccessToken(h, env, clock)
           rs == [reqs EXCEPT ![r] = AfterGate(route, h, g)]
       IN  reqs' = IF g.accepted THEN BindUser(rs, r, g.user) ELSE rs
    /\ UNCHANGED <<env, clock, users, todos, rate>>

\* router.post("/refresh", ..., requireRefreshToken, refreshAccessToken)
RefreshGate(r, h) ==
    /\ NoneDone
    /\ RouteStart(reqs[r], "refresh")
    /\ LET g == requireRefreshToken(h, env, clock)
           rs == [reqs EXCEPT ![r] = AfterGate("refresh", h, g)]
       IN  reqs' = IF g.accepted THEN BindUser(rs, r, g.user) ELSE rs
    /\ UNCHANGED <<env, clock, users, todos, rate>>

\* The slot of a request whose handler answered res after calls data-access
\* calls, having read the inputs in.
Answered(req, in, res, calls) ==
    [req EXCEPT !.pc = "done", !.handlerRan = TRUE, !.in = in, !.res = res,
                !.dbCalls = @ + calls]

\* next(error) from a handler's catch block: the error handler answers.
Failed(req, in, err, calls) ==
    Answered(req, in, errorHandler(err, env.NODE_ENV), calls)

\* app.use(express.json(...)) given a body that is no JSON: the parser hands
\* next() a SyntaxError that carries status 400 and is no HttpError; no
\* route is reached and the error handler answers.
ExpressJson(r) ==
    /\ NoneDone
    /\ reqs[r].pc = "idle"
    /\ reqs' = [reqs EXCEPT ![r] =
          [IdleReq EXCEPT !.pc = "done", !.route = "express.json", !.at = clock,
             !.res = errorHandler(Err("SyntaxError", 400, "Unexpected end of JSON input"),
                                  env.NODE_ENV)]]
    /\ UNCHANGED <<env, clock, users, todos, rate>>

\* A request of the client arrives at the router for route.  On the three
\* authentication routes authLimiter is the first function: it counts the
\* request and answers 429 itself when the count exceeds its limit.  The
\* todo routes have no limiter in front: generalLimiter is exported by
\* rate-limit.js and mounted nowhere.
Arrive(r, route) ==
    /\ NoneDone
    /\ reqs[r].pc = "idle"
    /\ rate.madeAt # clock \/ rate.made <= DefaultAuthMax
    /\ LET limited == route \in AuthRoutes
           hit == Hit(rate, clock)
           seen == [IdleReq EXCEPT !.route = route, !.at = clock]
       IN  /\ rate' = [rate EXCEPT
                          !.count = IF limited THEN hit.count ELSE @,
                          !.resetAt = IF limited THEN hit.resetAt ELSE @,
                          !.madeAt = clock,
                          !.made = IF rate.madeAt = clock THEN @ + 1 ELSE 1]
           /\ reqs' = [reqs EXCEPT ![r] =
                 IF limited /\ Blocked(rate.max, hit.count)
                 THEN [seen EXCEPT !.pc = "done",
                         !.res = Response(429, "Too many requests, please try again later",
                                          NullData)]
                 ELSE [seen EXCEPT !.pc = "admitted"]]
    /\ UNCHANGED <<env, clock, users, todos>>

(***************************************************************************)
(* Authentication controller (controllers/authentication.js).              *)
(***************************************************************************)
UsernameMinLen == 3
UsernameMaxLen == 30
PasswordMinLen == 8
PasswordMaxLen == 72

\* search: joi.string().trim().max(255)
SearchMaxLen == 255

\* The characters of the strings that are searched for or searched in:
\* every string of one or two characters over a, A, %, _ and \, and the
\* texts of the discount example.
Chars(s) ==
    CASE s = "a" -> <<"a">>
      [] s = "A" -> <<"A">>
      [] s = "%" -> <<"%">>
      [] s = "_" -> <<"_">>
      [] s = "\\" -> <<"\\">>
      [] s = "aa" -> <<"a", "a">>
      [] s = "aA" -> <<"a", "A">>
      [] s = "a%" -> <<"a", "%">>
      [] s = "a_" -> <<"a", "_">>
      [] s = "a\\" -> <<"a", "\\">>
      [] s = "Aa" -> <<"A", "a">>
      [] s = "AA" -> <<"A", "A">>
      [] s = "A%" -> <<"A", "%">>
      [] s = "A_" -> <<"A", "_">>
      [] s = "A\\" -> <<"A", "\\">>
      [] s = "%a" -> <<"%", "a">>
      [] s = "%A" -> <<"%", "A">>
      [] s = "%%" -> <<"%", "%">>
      [] s = "%_" -> <<"%", "_">>
      [] s = "%\\" -> <<"%", "\\">>
      [] s = "_a" -> <<"_", "a">>
      [] s = "_A" -> <<"_", "A">>
      [] s = "_%" -> <<"_", "%">>
      [] s = "__" -> <<"_", "_">>
      [] s = "_\\" -> <<"_", "\\">>
      [] s = "\\a" -> <<"\\", "a">>
      [] s = "\\A" -> <<"\\", "A">>
      [] s = "\\%" -> <<"\\", "%">>
      [] s = "\\_" -> <<"\\", "_">>
      [] s = "\\\\" -> <<"\\", "\\">>
      [] s = "50%_off" -> <<"5", "0", "%", "_", "o", "f", "f">>
      [] s = "50 percent off" -> <<"5", "0", " ", "p", "e", "r", "c", "e", "n", "t", " ", "o", "f", "f">>
      [] s = "b" -> <<"b">>
      [] s = "a*255" -> [i \in 1..SearchMaxLen |-> "a"]
      [] s = "a*256" -> [i \in 1..(SearchMaxLen + 1) |-> "a"]
      [] s = "a*255 " -> [i \in 1..SearchMaxLen |-> "a"] \o <<" ">>
      [] OTHER -> <<>>

ShortTexts ==
    {"a", "A", "%", "_", "\\", "aa", "aA", "a%", "a_", "a\\", "Aa", "AA",
     "A%", "A_", "A\\", "%a", "%A", "%%", "%_", "%\\", "_a", "_A", "_%",
     "__", "_\\", "\\a", "\\A", "\\%", "\\_", "\\\\"}

\* The strings the model sends as usernames, passwords and titles, with
\* their lengths; all usernames match the username pattern.
StrLen(s) ==
    CASE s = "alice" -> 5
      [] s = "bob" -> 3
      [] s = "ab" -> 2
      [] s = "short" -> 5
      [] s = "carol" -> 5
      [] s = "password1" -> 9
      [] s = "password2" -> 9
      [] s = "a" -> 1
      [] s = "b" -> 1
      [] s = "long title" -> 256
      [] s = " a " -> 3
      [] s = "   " -> 3
      [] OTHER -> Len(Chars(s))

\* signinSchema.validate(req.body): the first violation, or "" when valid.
signinSchema(in) ==
    IF in.username = Undef THEN "\"username\" is required"
    ELSE IF StrLen(in.username) < UsernameMinLen
    THEN "\"username\" length must be at least 3 characters long"
    ELSE IF StrLen(in.username) > UsernameMaxLen
    THEN "\"username\" length must be less than or equal to 30 characters long"
    ELSE IF in.password = Undef THEN "\"password\" is required"
    ELSE IF StrLen(in.password) < PasswordMinLen
    THEN "\"password\" length must be at least 8 characters long"
    ELSE IF StrLen(in.password) > PasswordMaxLen
    THEN "\"password\" length must be less than or equal to 72 characters long"
    ELSE ""

\* A schema without the length rules.
signupSchemaNoLengthM(in) ==
    IF in.username = Undef THEN "\"username\" is required"
    ELSE IF in.password = Undef THEN "\"password\" is required"
    ELSE IF in.confirmation_password = Undef
    THEN "\"confirmation_password\" is required"
    ELSE IF in.confirmation_password # in.password
    THEN "confirmation_password must match password"
    ELSE ""

\* signupSchema.validate(req.body)
signupSchema(in) ==
    IF signinSchema(in) # "" THEN signinSchema(in)
    ELSE IF in.confirmation_password = Undef
    THEN "\"confirmation_password\" is required"
    ELSE IF in.confirmation_password # in.password
    THEN "confirmation_password must match password"
    ELSE ""

\* signup, up to its first use of the table: validation and the lookup
\* userModel.findOne({username}).
SignupFind(r, in) ==
    /\ NoneDone
    /\ RouteStart(reqs[r], "signup")
    /\ LET req == [IdleReq EXCEPT !.route = "signup", !.at = clock]
           error == signupSchema(in)
           existingUser == UsersWhereUsername(users, in.username)
       IN  reqs' = [reqs EXCEPT ![r] =
             IF error # ""
             THEN Failed(req, in, HttpError(400, error), 0)
             ELSE IF existingUser # {}
             THEN Failed(req, in,
                    HttpError(400, "user with the given username already exists"), 1)
             ELSE [req EXCEPT !.pc = "signup2", !.handlerRan = TRUE, !.in = in,
                              !.dbCalls = 1]]
    /\ UNCHANGED <<env, clock, users, todos, rate>>

\* The id the database gives a new row: one that no row has.  Ids are
\* opaque, so the first unused one stands for any of them.
FreshUserId(tbl) ==
    LET unused == UserIds \ {u.id : u \in tbl}
    IN  IF unused = {} THEN {}
        ELSE {CHOOSE id \in unused : \A o \in unused : IdRank(id) <= IdRank(o)}

\* signup, from the hash to the response: hashPassword, userModel.create,
\* 201.  The id is the database's (a fresh one).  The migration that
\* creates the users table is not among the sources: when a row already
\* holds the username, the insert fails if the column has a unique index
\* and adds a second row if it has none.
SignupCreate(r) ==
    /\ NoneDone
    /\ reqs[r].pc = "signup2"
    /\ LET req == [reqs[r] EXCEPT !.credCalls = @ + 1]
           in == req.in
           hashedPassword == hashPassword(in.password)
           taken == UsersWhereUsername(users, in.username) # {}
       IN  \/ /\ taken
              /\ reqs' = [reqs EXCEPT ![r] =
                    Failed(req, in,
                      Err("error", 0, "duplicate key value violates unique constraint"), 1)]
              /\ users' = users
           \/ \E id \in FreshUserId(users) :
              /\ users' = users \cup
                    {[id |-> id, username |-> in.username,
                      password |-> hashedPassword, created_at |-> clock]}
              /\ reqs' = [reqs EXCEPT ![r] =
                    Answered(req, in,
                      Response(201, "Created",
                               [id |-> id, username |-> in.username]), 1)]
    /\ UNCHANGED <<env, clock, todos, rate>>

\* A signin that tells an unknown username from a wrong password.
signinAnswerEnumeratingM(req, in, found, user) ==
    IF found = {} THEN Failed(req, in, HttpError(404, "user not found"), 1)
    ELSE IF ~verifyPassword(user.password, in.password)
    THEN Failed(req, in, HttpError(401, "invalid credentials"), 1)
    ELSE Answered(req, in,
           Response(200, "OK",
             [id |-> user.id, username |-> user.username,
              access_token |-> generateAccessToken(user.id, env, clock),
              refresh_token |-> generateRefreshToken(user.id, env, clock)]), 1)

\* What signin answers for the validated body in, given the rows that match
\* the username and the one of them that .first() returned.
signinAnswer(req, in, found, user) ==
    IF found = {} THEN Failed(req, in, HttpError(401, "invalid credentials"), 1)
    ELSE IF verifyPasswordThrows(user.password)
    THEN Failed(req, in, Err("TypeError", 0, "pchstr must contain a $ as first char"), 1)
    ELSE IF ~verifyPassword(user.password, in.password)
    THEN Failed(req, in, HttpError(401, "invalid credentials"), 1)
    ELSE Answered(req, in,
           Response(200, "OK",
             [id |-> user.id, username |-> user.username,
              access_token |-> generateAccessToken(user.id, env, clock),
              refresh_token |-> generateRefreshToken(user.id, env, clock)]), 1)

\* signin: validation, userModel.findOneWithPassword({username}),
\* verifyPassword, the two tokens.  The lookup is its only use of the
\* table.
Signin(r, in) ==
    /\ NoneDone
    /\ RouteStart(reqs[r], "signin")
    /\ LET req == [IdleReq EXCEPT !.route = "signin", !.at = clock]
           error == signinSchema(in)
           found == UsersWhereUsername(users, in.username)
           verified == [req EXCEPT !.credCalls = IF found = {} THEN 0 ELSE 1]
       IN  \E user \in (IF found = {} THEN SeedUsers ELSE found) :
             reqs' = [reqs EXCEPT ![r] =
               IF error # ""
               THEN Failed(req, in, HttpError(400, error), 0)
               ELSE signinAnswer(verified, in, found, user)]
    /\ UNCHANGED <<env, clock, users, todos, rate>>

\* refreshAccessToken: a new access token for req.user.id.
RefreshAccessToken(r) ==
    /\ NoneDone
    /\ reqs[r].pc = "handler"
    /\ reqs[r].route = "refresh"
    /\ LET userId == reqs[r].user
       IN  reqs' = [reqs EXCEPT ![r] =
             Answered(reqs[r], NoInput,
               Response(200, "OK",
                 [access_token |-> generateAccessToken(userId, env, clock)]), 0)]
    /\ UNCHANGED <<env, clock, users, todos, rate>>

(***************************************************************************)
(* Todo controller (controllers/todo.js).                                  *)
(*                                                                         *)
(* Each handler is given as an operator from the table, the caller's       *)
(* identity and the inputs to [res, tbl, calls]: the response, the table   *)
(* afterwards and the number of data-access calls.                         *)
(***************************************************************************)
TitleMaxLen == 255
MaxBulkIds == 50

\* A well-formed identifier that no row ever has.
MissingTodoId == "t0"

\* joi.string().uuid() and the uuidRegex of deleteTodosQuerySchema.
IsUuid(s) == s \in TodoIds \cup {MissingTodoId}

Result(res, tbl, calls) == [res |-> res, tbl |-> tbl, calls |-> calls]

Rejected(err, tbl) == Result(errorHandler(err, env.NODE_ENV), tbl, 0)

\* todoIdParamSchema.validate(req.params)
todoIdParamSchema(in) ==
    IF IsUuid(in.todo_id) THEN "" ELSE "\"todo_id\" must be a valid GUID"

\* todoBodySchema.validate(req.body)
todoBodySchema(in) ==
    IF in.title = Undef THEN "\"title\" is required"
    ELSE IF StrLen(in.title) > TitleMaxLen
    THEN "\"title\" length must be less than or equal to 255 characters long"
    ELSE ""

\* A schema whose custom rule looks at the first entry only.
deleteTodosQuerySchemaFirstOnlyM(in) ==
    IF in.ids = <<>> THEN "\"ids\" is required"
    ELSE IF ~IsUuid(in.ids[1])
    THEN "ids must be 1-50 comma-separated valid UUIDs"
    ELSE ""

\* deleteTodosQuerySchema.validate(req.query): ids is the list the query
\* string splits into at its commas.
deleteTodosQuerySchema(in) ==
    IF in.ids = <<>> THEN "\"ids\" is required"
    ELSE IF Len(in.ids) > MaxBulkIds \/ \E i \in 1..Len(in.ids) : ~IsUuid(in.ids[i])
    THEN "ids must be 1-50 comma-separated valid UUIDs"
    ELSE ""

\* requireTodoIdParam, then getTodo
getTodo(tbl, userId, in) ==
    IF todoIdParamSchema(in) # ""
    THEN Rejected(HttpError(400, todoIdParamSchema(in)), tbl)
    ELSE Result(Response(200, "OK", [todo |-> TodosFindOne(tbl, in.todo_id, userId)]),
                tbl, 1)

\* A createTodo that takes the owner from the request body when it has one.
createTodoBodyOwnerM(tbl, userId, in, id, now) ==
    IF todoBodySchema(in) # ""
    THEN Rejected(HttpError(400, todoBodySchema(in)), tbl)
    ELSE LET row == [id |-> id,
                     user_id |-> IF in.user_id # Undef THEN in.user_id ELSE userId,
                     title |-> in.title, updated_at |-> now]
         IN  Result(Response(201, "Created", [todo |-> {TodoColumns(row)}]),
                    TodosCreate(tbl, row), 1)

\* createTodo with the identifier crypto.randomUUID() returned; the schema
\* strips the keys it does not know (stripUnknown), and the row is built
\* from req.user.id and the validated title.
createTodo(tbl, userId, in, id, now) ==
    IF todoBodySchema(in) # ""
    THEN Rejected(HttpError(400, todoBodySchema(in)), tbl)
    ELSE LET row == [id |-> id, user_id |-> userId, title |-> in.title,
                     updated_at |-> now]
         IN  Result(Response(201, "Created", [todo |-> {TodoColumns(row)}]),
                    TodosCreate(tbl, row), 1)

\* requireTodoIdParam, then updateTodo
updateTodo(tbl, userId, in, now) ==
    IF todoIdParamSchema(in) # ""
    THEN Rejected(HttpError(400, todoIdParamSchema(in)), tbl)
    ELSE IF todoBodySchema(in) # ""
    THEN Rejected(HttpError(400, todoBodySchema(in)), tbl)
    ELSE Result(Response(200, "OK",
                  [todo |-> TodosUpdateReturning(tbl, in.todo_id, userId, in.title, now)]),
                TodosUpdate(tbl, in.todo_id, userId, in.title, now), 1)

\* requireTodoIdParam, then deleteTodo
deleteTodo(tbl, userId, in) ==
    IF todoIdParamSchema(in) # ""
    THEN Rejected(HttpError(400, todoIdParamSchema(in)), tbl)
    ELSE Result(Response(200, "OK", NullData),
                TodosRemove(tbl, in.todo_id, userId), 1)

\* deleteTodos
deleteTodos(tbl, userId, in) ==
    IF deleteTodosQuerySchema(in) # ""
    THEN Rejected(HttpError(400, deleteTodosQuerySchema(in)), tbl)
    ELSE Result(Response(200, "OK", NullData),
                TodosRemoveMany(tbl, in.ids, userId), 1)

\* The step of a handler that uses the table once: the slot is answered and
\* the table becomes the result's.
Handle(r, route, in, result) ==
    /\ NoneDone
    /\ reqs[r].pc = "handler"
    /\ reqs[r].route = route
    /\ reqs' = [reqs EXCEPT ![r] = Answered(reqs[r], in, result.res, result.calls)]
    /\ todos' = result.tbl
    /\ UNCHANGED <<env, clock, users, rate>>

GetTodo(r, in) == Handle(r, "getTodo", in, getTodo(todos, reqs[r].user, in))

\* id is what crypto.randomUUID() returns: an identifier no row has.
CreateTodo(r, in, id) ==
    /\ id \notin {t.id : t \in todos}
    /\ Handle(r, "createTodo", in, createTodo(todos, reqs[r].user, in, id, clock))

UpdateTodo(r, in) ==
    Handle(r, "updateTodo", in, updateTodo(todos, reqs[r].user, in, clock))

DeleteTodo(r, in) == Handle(r, "deleteTodo", in, deleteTodo(todos, reqs[r].user, in))

\* deleteTodos is answered after its one statement; the slot keeps the table
\* the statement ran on.
DeleteTodos(r, in) ==
    /\ NoneDone
    /\ reqs[r].pc = "handler"
    /\ reqs[r].route = "deleteTodos"
    /\ LET result == deleteTodos(todos, reqs[r].user, in)
       IN  /\ reqs' = [reqs EXCEPT ![r] =
                 [Answered(reqs[r], in, result.res, result.calls)
                    EXCEPT !.rowsFrom = todos]]
           /\ todos' = result.tbl
    /\ UNCHANGED <<env, clock, users, rate>>

(***************************************************************************)
(* Pagination and search (utils/pagination.js, utils/sanitize.js, and the  *)
(* paginated reads of models/todos.js).  Strings are the model's named     *)
(* strings; Chars gives the characters of those that are searched.         *)
(***************************************************************************)
DefaultPage == 1
DefaultLimit == 10
MaxLimit == 100

\* String.prototype.trim as joi applies it before the length rule: the
\* string without its leading and trailing white space.
Trimmed(s) ==
    CASE s = " a " -> "a"
      [] s = "   " -> ""
      [] s = "a*255 " -> "a*255"
      [] OTHER -> s

\* The position of a string in the column's collation.
Collation(s) == CASE s = "a" -> 1 [] s = "b" -> 2 [] OTHER -> 0

\* A rule that lets every column name pass.
InSeqAnyM(x, seq) == TRUE

\* x is one of seq: joi's valid(...sortableColumns)
InSeq(x, seq) == \E i \in 1..Len(seq) : seq[i] = x

\* A schema without the upper limit of limit.
validatePaginationQueryNoMaxM(in, sortableColumns) ==
    LET search == IF in.search = Undef THEN "" ELSE Trimmed(in.search)
        value == [page |-> IF in.page = -1 THEN DefaultPage ELSE in.page,
                  limit |-> IF in.limit = -1 THEN DefaultLimit ELSE in.limit,
                  sort_by |-> IF in.sort_by = Undef THEN sortableColumns[1]
                              ELSE in.sort_by,
                  sort_order |-> IF in.sort_order = Undef THEN "desc"
                                 ELSE in.sort_order,
                  search |-> search]
        error ==
            IF value.page < 1 THEN "\"page\" must be greater than or equal to 1"
            ELSE IF value.limit < 1 THEN "\"limit\" must be greater than or equal to 1"
            ELSE IF ~InSeq(value.sort_by, sortableColumns)
            THEN "\"sort_by\" must be one of the sortable columns"
            ELSE IF value.sort_order \notin {"asc", "desc"}
            THEN "\"sort_order\" must be one of [asc, desc]"
            ELSE IF in.search = ""
            THEN "\"search\" is not allowed to be empty"
            ELSE IF StrLen(search) > SearchMaxLen
            THEN "\"search\" length must be less than or equal to 255 characters long"
            ELSE ""
    IN  [error |-> error, value |-> value]

\* validatePaginationQuery(query, sortableColumns): [error, value], error
\* the first violation ("" when there is none), value the query with the
\* defaults applied.
validatePaginationQuery(in, sortableColumns) ==
    LET search == IF in.search = Undef THEN "" ELSE Trimmed(in.search)
        value == [page |-> IF in.page = -1 THEN DefaultPage ELSE in.page,
                  limit |-> IF in.limit = -1 THEN DefaultLimit ELSE in.limit,
                  sort_by |-> IF in.sort_by = Undef THEN sortableColumns[1]
                              ELSE in.sort_by,
                  sort_order |-> IF in.sort_order = Undef THEN "desc"
                                 ELSE in.sort_order,
                  search |-> search]
        error ==
            IF value.page < 1 THEN "\"page\" must be greater than or equal to 1"
            ELSE IF value.limit < 1 THEN "\"limit\" must be greater than or equal to 1"
            ELSE IF value.limit > MaxLimit
            THEN "\"limit\" must be less than or equal to 100"
            ELSE IF ~InSeq(value.sort_by, sortableColumns)
            THEN "\"sort_by\" must be one of the sortable columns"
            ELSE IF value.sort_order \notin {"asc", "desc"}
            THEN "\"sort_order\" must be one of [asc, desc]"
            ELSE IF in.search = ""
            THEN "\"search\" is not allowed to be empty"
            ELSE IF StrLen(search) > SearchMaxLen
            THEN "\"search\" length must be less than or equal to 255 characters long"
            ELSE ""
    IN  [error |-> error, value |-> value]

\* A division that rounds down.
CeilFloorM(a, b) == a \div b

\* Math.ceil(a / b) for a >= 0, b >= 1
Ceil(a, b) == (a + b - 1) \div b

\* A metadata builder that sees a next page on the last page too.
buildPaginationMetaNextM(page, limit, totalItems) ==
    LET totalPages == Ceil(totalItems, limit)
        hasNextPage == page <= totalPages
        hasPreviousPage == page > 1
    IN  [current_page |-> page, total_pages |-> totalPages,
         total_items |-> totalItems, items_per_page |-> limit,
         has_next_page |-> hasNextPage, has_previous_page |-> hasPreviousPage,
         next_page |-> IF hasNextPage THEN page + 1 ELSE 0,
         previous_page |-> IF hasPreviousPage THEN page - 1 ELSE 0]

\* buildPaginationMeta(page, limit, totalItems); a null page is 0.
buildPaginationMeta(page, limit, totalItems) ==
    LET totalPages == Ceil(totalItems, limit)
        hasNextPage == page < totalPages
        hasPreviousPage == page > 1
    IN  [current_page |-> page, total_pages |-> totalPages,
         total_items |-> totalItems, items_per_page |-> limit,
         has_next_page |-> hasNextPage, has_previous_page |-> hasPreviousPage,
         next_page |-> IF hasNextPage THEN page + 1 ELSE 0,
         previous_page |-> IF hasPreviousPage THEN page - 1 ELSE 0]

\* A search string that is used as it is.
escapeIlikeNoneM(str) == str

\* escapeIlike(str): a backslash before each of % _ \
\* (the replacement is made character by character; the string is halved
\* so that long strings are evaluated at a small depth)
RECURSIVE escapeIlike(_)
escapeIlike(str) ==
    IF str = <<>> THEN <<>>
    ELSE IF Len(str) = 1
    THEN (IF str[1] \in {"%", "_", "\\"} THEN <<"\\", str[1]>> ELSE str)
    ELSE LET h == Len(str) \div 2
         IN  escapeIlike(SubSeq(str, 1, h)) \o escapeIlike(SubSeq(str, h + 1, Len(str)))

\* Case folding of the characters the model uses.
Lower(c) == CASE c = "A" -> "a" [] c = "B" -> "b" [] OTHER -> c

\* text ILIKE pattern: % matches any run of characters, _ any one character,
\* a backslash makes the next character literal.
RECURSIVE Ilike(_, _)
Ilike(text, pat) ==
    IF pat = <<>> THEN text = <<>>
    ELSE IF Head(pat) = "%"
    THEN \E k \in 0..Len(text) : Ilike(SubSeq(text, k + 1, Len(text)), Tail(pat))
    ELSE IF text = <<>> THEN FALSE
    ELSE IF Head(pat) = "_" THEN Ilike(Tail(text), Tail(pat))
    ELSE IF Head(pat) = "\\"
    THEN /\ Len(pat) >= 2
         /\ Lower(Head(text)) = Lower(pat[2])
         /\ Ilike(Tail(text), Tail(Tail(pat)))
    ELSE Lower(Head(text)) = Lower(Head(pat)) /\ Ilike(Tail(text), Tail(pat))

\* The search options executePaginatedQuery passes to both reads.
SearchOptions(search, searchableColumns) ==
    LET sanitizedSearch == IF search # "" THEN escapeIlike(Chars(search)) ELSE <<>>
    IN  IF sanitizedSearch # <<>> /\ searchableColumns # <<>>
        THEN [search |-> sanitizedSearch, searchColumns |-> searchableColumns]
        ELSE [search |-> <<>>, searchColumns |-> <<>>]

\* .where(conditions) and, with a search, .where(title ilike %search%)
TodosMatching(tbl, userId, options) ==
    {t \in tbl :
        /\ t.user_id = userId
        /\ (options.search # <<>> /\ options.searchColumns # <<>>)
              => Ilike(Chars(t.title), <<"%">> \o options.search \o <<"%">>)}

\* A count that leaves the search out.
TodosCountNoSearchM(tbl, userId, options) ==
    Cardinality({t \in tbl : t.user_id = userId})

\* todoModel.count(conditions, options)
TodosCount(tbl, userId, options) == Cardinality(TodosMatching(tbl, userId, options))

SortKey(t, column) == IF column = "title" THEN Collation(t.title) ELSE t.updated_at

\* orderBy([{column, order}]): the orders in which the rows may come; rows
\* with equal keys come in any order.  The first row is any row that no
\* other row precedes, the rest an ordering of the remaining rows.
RECURSIVE Orderings(_, _, _)
Orderings(rows, column, order) ==
    IF rows = {} THEN {<<>>}
    ELSE LET first == {m \in rows :
                        \A o \in rows :
                           IF order = "asc"
                           THEN SortKey(m, column) <= SortKey(o, column)
                           ELSE SortKey(m, column) >= SortKey(o, column)}
         IN  UNION {{<<m>> \o s : s \in Orderings(rows \ {m}, column, order)} :
                     m \in first}

Min(a, b) == IF a < b THEN a ELSE b

\* todoModel.findManyPaginated(conditions, {limit, offset, orders, ...}):
\* the pages the read may return.
TodosFindManyPaginated(tbl, userId, limit, offset, column, order, options) ==
    LET rows == TodosMatching(tbl, userId, options)
        n == Cardinality(rows)
        m == IF offset >= n THEN 0 ELSE Min(limit, n - offset)
    IN  {[k \in 1..m |-> TodoColumns(s[offset + k])] : s \in Orderings(rows, column, order)}

\* An offset that counts the pages from 0.
OffsetFromPageM(page, limit) == page * limit

\* executePaginatedQuery: offset = (page - 1) * limit
Offset(page, limit) == (page - 1) * limit

SortableColumns == <<"updated_at", "title">>
SearchableColumns == <<"title">>

\* getTodos up to its await: validation; both reads are then under way.
GetTodos(r, in) ==
    /\ NoneDone
    /\ reqs[r].pc = "handler"
    /\ reqs[r].route = "getTodos"
    /\ LET v == validatePaginationQuery(in, SortableColumns)
       IN  reqs' = [reqs EXCEPT ![r] =
             IF v.error # ""
             THEN Failed(reqs[r], in, HttpError(400, v.error), 0)
             ELSE [reqs[r] EXCEPT !.pc = "getTodos2", !.handlerRan = TRUE, !.in = in]]
    /\ UNCHANGED <<env, clock, users, todos, rate>>

\* The response of getTodos once both reads have returned.
getTodosAnswer(req) ==
    IF req.count >= 0 /\ req.rowsRead
    THEN LET p == validatePaginationQuery(req.in, SortableColumns).value
         IN  [req EXCEPT !.pc = "done",
                !.res = Response(200, "OK",
                          [todos |-> req.rows,
                           pagination |-> buildPaginationMeta(p.page, p.limit, req.count)])]
    ELSE req

\* countFn(conditions, searchOptions) is executed.
GetTodosCount(r) ==
    /\ NoneDone
    /\ reqs[r].pc = "getTodos2"
    /\ reqs[r].count = -1
    /\ LET p == validatePaginationQuery(reqs[r].in, SortableColumns).value
           options == SearchOptions(p.search, SearchableColumns)
       IN  reqs' = [reqs EXCEPT ![r] =
             getTodosAnswer([reqs[r] EXCEPT
                 !.count = TodosCount(todos, reqs[r].user, options),
                 !.countFrom = todos,
                 !.countArgs = [NoReadArgs EXCEPT
                                  !.user_id = reqs[r].user,
                                  !.search = options.search,
                                  !.searchColumns = options.searchColumns],
                 !.dbCalls = @ + 1])]
    /\ UNCHANGED <<env, clock, users, todos, rate>>

\* findFn(conditions, {limit, offset, orders, ...searchOptions}) is executed.
GetTodosFind(r) ==
    /\ NoneDone
    /\ reqs[r].pc = "getTodos2"
    /\ ~reqs[r].rowsRead
    /\ LET p == validatePaginationQuery(reqs[r].in, SortableColumns).value
           options == SearchOptions(p.search, SearchableColumns)
       IN  \E data \in TodosFindManyPaginated(todos, reqs[r].user, p.limit,
                          Offset(p.page, p.limit), p.sort_by, p.sort_order, options) :
             reqs' = [reqs EXCEPT ![r] =
               getTodosAnswer([reqs[r] EXCEPT
                   !.rows = data, !.rowsRead = TRUE,
                   !.rowsFrom = todos,
                   !.findArgs = [user_id |-> reqs[r].user,
                                 search |-> options.search,
                                 searchColumns |-> options.searchColumns,
                                 limit |-> p.limit,
                                 offset |-> Offset(p.page, p.limit),
                                 column |-> p.sort_by, order |-> p.sort_order],
                   !.dbCalls = @ + 1])]
    /\ UNCHANGED <<env, clock, users, todos, rate>>

(***************************************************************************)
(* What clients send.                                                      *)
(*                                                                         *)
(* The server keeps no record of the tokens it issued, and issuing one     *)
(* changes nothing in its state: in any state, a client may hold every     *)
(* token that a signin (or a refresh) of an existing user could have       *)
(* returned since that user's row was created.  Besides those, a client    *)
(* can send strings that are no tokens and tokens signed with a key of its *)
(* own.                                                                    *)
(***************************************************************************)
IssuedTokens ==
    UNION {{generateAccessToken(u.id, env, t), generateRefreshToken(u.id, env, t)} :
            <<u, t>> \in {<<v, s>> \in users \X (0..clock) : v.created_at <= s}}

ForgedToken == [id |-> "u1", iat |-> 0, exp |-> MaxClock + 1, sig |-> "kForged"]

PresentedTokens == IssuedTokens \cup {MalformedToken, ForgedToken}

\* Requests that carry at most one token, in one of the three headers.
OneTokenHeaders ==
    {NoHeaders}
    \cup {Headers(t, NoToken, NoToken) : t \in PresentedTokens}
    \cup {Headers(NoToken, t, NoToken) : t \in PresentedTokens}
    \cup {Headers(NoToken, NoToken, t) : t \in PresentedTokens}

Body(username, password, confirmation) ==
    [NoInput EXCEPT !.username = username, !.password = password,
                    !.confirmation_password = confirmation]

SignupBodies ==
    {Body("alice", "password1", "password1"), Body("bob", "password1", "password1"),
     Body("ab", "password1", "password1"),
     Body("bob", "short", "short"), Body("bob", "password1", "password2")}

SigninBodies ==
    {Body(u, p, Undef) : u \in {"alice", "bob", "ab"},
                         p \in {"password1", "password2", "short"}}

TodoIdParams == {[NoInput EXCEPT !.todo_id = id] : id \in TodoIds \cup {"not-a-uuid"}}

(***************************************************************************)
(* Spec: the authentication routes and the two gates, with every kind of   *)
(* token in every header; the gated todo route is GET /todos/:todo_id.     *)
(***************************************************************************)
Next ==
    \/ Tick
    \/ \E r \in Reqs : Respond(r)
    \/ \E r \in Reqs, in \in SignupBodies : SignupFind(r, in)
    \/ \E r \in Reqs : SignupCreate(r)
    \/ \E in \in SigninBodies : Signin("r1", in)
    \/ \E h \in OneTokenHeaders : RefreshGate("r1", h)
    \/ RefreshAccessToken("r1")
    \/ \E h \in OneTokenHeaders : AccessGate("r1", "getTodo", h)
    \/ \E in \in TodoIdParams : GetTodo("r1", in)
    \/ ExpressJson("r1")

Spec == Init /\ [][Next]_vars

(***************************************************************************)
(* SpecTodos: the todo routes that use the table once, called by two       *)
(* signed-up users whose requests interleave.  It starts where Spec is     *)
(* after bob's signup, with secrets that differ.                           *)
(***************************************************************************)
TwoUsers ==
    SeedUsers \cup
    {[id |-> "u2", username |-> "bob", password |-> hashPassword("password1"),
      created_at |-> 0]}

InitTodos ==
    /\ env = [ACCESS_TOKEN_SECRET |-> "kA", REFRESH_TOKEN_SECRET |-> "kB",
              NODE_ENV |-> "development"]
    /\ clock = 0
    /\ users = TwoUsers
    /\ todos = {}
    /\ reqs = [r \in Reqs |-> IdleReq]
    /\ rate = NoRate

\* A request with a token of its sender in x-access-token, or with none.
AccessHeaders ==
    {NoHeaders} \cup
    {Headers(generateAccessToken(u.id, env, clock), NoToken, NoToken) : u \in users}

TodoBodies == {[NoInput EXCEPT !.title = t] : t \in {"a", "b", Undef}}

\* Bodies that also name an owner and an identifier.
OwnerBodies == {[NoInput EXCEPT !.title = "a", !.user_id = "u2", !.id = "t3"]}

OwnerUpdates ==
    {[NoInput EXCEPT !.todo_id = "t1", !.title = "b", !.user_id = "u2", !.id = "t2"]}

TodoUpdates ==
    {[NoInput EXCEPT !.todo_id = id, !.title = t] :
        id \in TodoIds \cup {"not-a-uuid"}, t \in {"a", "b", Undef}}

\* ?ids=x, ?ids=x,y and a list of one entry more than the schema allows
BulkQueries ==
    {[NoInput EXCEPT !.ids = ids] :
        ids \in {<<x>> : x \in TodoIds \cup {"not-a-uuid"}}
                \cup {<<x, y>> : x \in TodoIds, y \in TodoIds \cup {"not-a-uuid"}}
                \cup {<<>>, [i \in 1..(MaxBulkIds + 1) |-> "t1"]}}

SingleTodoRoutes == {"getTodo", "createTodo", "updateTodo", "deleteTodo", "deleteTodos"}

NextTodos ==
    \/ \E r \in Reqs : Respond(r)
    \/ \E r \in Reqs, route \in SingleTodoRoutes, h \in AccessHeaders :
          AccessGate(r, route, h)
    \/ \E r \in Reqs, in \in TodoIdParams : GetTodo(r, in)
    \/ \E r \in Reqs, in \in TodoBodies \cup OwnerBodies, id \in TodoIds :
          CreateTodo(r, in, id)
    \/ \E r \in Reqs, in \in TodoUpdates \cup OwnerUpdates : UpdateTodo(r, in)
    \/ \E r \in Reqs, in \in TodoIdParams : DeleteTodo(r, in)
    \/ \E r \in Reqs, in \in BulkQueries : DeleteTodos(r, in)

SpecTodos == InitTodos /\ [][NextTodos]_vars

(***************************************************************************)
(* SpecRoutes: every gated route, from the gate to the response, for       *)
(* requests that carry no token, a string that is no token, or an access   *)
(* or a refresh token of a user in either of the two token headers.  The   *)
(* table holds at most one todo.                                           *)
(***************************************************************************)
UserTokens ==
    {generateAccessToken("u1", env, clock), generateRefreshToken("u2", env, clock)}

RouteHeaders ==
    {NoHeaders, Headers(MalformedToken, NoToken, NoToken),
     Headers(NoToken, MalformedToken, NoToken)}
    \cup {Headers(t, NoToken, NoToken) : t \in UserTokens}
    \cup {Headers(NoToken, t, NoToken) : t \in UserTokens}

PageQueries ==
    {NoInput, [NoInput EXCEPT !.page = 0], [NoInput EXCEPT !.page = 2, !.limit = 1]}

RouteTodoIds == {"t1"}

RouteParams == {[NoInput EXCEPT !.todo_id = id] : id \in {"t1", "not-a-uuid"}}

RouteBodies == {[NoInput EXCEPT !.title = t] : t \in {"a", Undef}}

RouteUpdates ==
    {[NoInput EXCEPT !.todo_id = id, !.title = t] :
        id \in {"t1", "not-a-uuid"}, t \in {"b", Undef}}

RouteBulk == {[NoInput EXCEPT !.ids = ids] : ids \in {<<"t1">>, <<"not-a-uuid">>}}

NextRoutes ==
    \/ \E r \in Reqs : Respond(r)
    \/ \E r \in Reqs, route \in TodoRoutes, h \in RouteHeaders : AccessGate(r, route, h)
    \/ \E r \in Reqs, h \in RouteHeaders : RefreshGate(r, h)
    \/ \E r \in Reqs : RefreshAccessToken(r)
    \/ \E r \in Reqs, in \in PageQueries : GetTodos(r, in)
    \/ \E r \in Reqs : GetTodosCount(r)
    \/ \E r \in Reqs : GetTodosFind(r)
    \/ \E r \in Reqs, in \in RouteParams : GetTodo(r, in)
    \/ \E r \in Reqs, in \in RouteBodies, id \in RouteTodoIds : CreateTodo(r, in, id)
    \/ \E r \in Reqs, in \in RouteUpdates : UpdateTodo(r, in)
    \/ \E r \in Reqs, in \in RouteParams : DeleteTodo(r, in)
    \/ \E r \in Reqs, in \in RouteBulk : DeleteTodos(r, in)

SpecRoutes == InitTodos /\ [][NextRoutes]_vars

(***************************************************************************)
(* SpecPages: GET /todos by u1 over a table that holds todos of both       *)
(* users, with queries inside and outside the limits of the schema, while  *)
(* a second request of u1 creates or deletes a todo between the two reads. *)
(***************************************************************************)
PageTodos ==
    {[id |-> "t1", user_id |-> "u1", title |-> "a", updated_at |-> 0],
     [id |-> "t2", user_id |-> "u1", title |-> "b", updated_at |-> 0],
     [id |-> "t3", user_id |-> "u2", title |-> "a", updated_at |-> 0]}

InitPages ==
    /\ env = [ACCESS_TOKEN_SECRET |-> "kA", REFRESH_TOKEN_SECRET |-> "kB",
              NODE_ENV |-> "development"]
    /\ clock = 0
    /\ users = TwoUsers
    /\ todos = PageTodos
    /\ reqs = [r \in Reqs |-> IdleReq]
    /\ rate = NoRate

\* ?page=..&limit=..&sort_by=..&sort_order=..&search=..
ListQueries ==
    {[NoInput EXCEPT !.page = page, !.limit = limit, !.sort_by = by,
                     !.sort_order = order, !.search = search] :
        page \in {-1, 0, 2}, limit \in {-1, 0, 1, MaxLimit + 1},
        by \in {Undef, "title", "id"}, order \in {Undef, "asc", "up"},
        search \in {Undef, "a"}}

PageHeaders ==
    {NoHeaders, Headers(generateAccessToken("u1", env, clock), NoToken, NoToken)}

NextPages ==
    \/ \E r \in Reqs : Respond(r)
    \/ \E h \in PageHeaders : AccessGate("r1", "getTodos", h)
    \/ \E route \in {"createTodo", "deleteTodo"}, h \in PageHeaders :
          AccessGate("r2", route, h)
    \/ \E in \in ListQueries : GetTodos("r1", in)
    \/ GetTodosCount("r1")
    \/ GetTodosFind("r1")
    \/ \E in \in TodoBodies, id \in TodoIds : CreateTodo("r2", in, id)
    \/ \E in \in TodoIdParams : DeleteTodo("r2", in)

SpecPages == InitPages /\ [][NextPages]_vars

(***************************************************************************)
(* SpecMeta: the arithmetic of a list request.  u1 has between no and      *)
(* MaxTotal todos, written at different times, and asks for every page up  *)
(* to MaxPage with every limit the schema allows.                          *)
(***************************************************************************)
MaxTotal == 12
MaxPage == 4

\* k todos of u1; todo i was last written i time units before the start.
MetaTodos(k) ==
    {[id |-> "m" \o ToString(i), user_id |-> "u1", title |-> "a", updated_at |-> -i] :
        i \in 1..k}

InitMeta ==
    /\ env = [ACCESS_TOKEN_SECRET |-> "kA", REFRESH_TOKEN_SECRET |-> "kB",
              NODE_ENV |-> "development"]
    /\ clock = 0
    /\ users = TwoUsers
    /\ todos \in {MetaTodos(k) : k \in 0..MaxTotal}
    /\ reqs = [r \in Reqs |-> IdleReq]
    /\ rate = NoRate

\* ?page=..&limit=.., and the request without a query
MetaQueries ==
    {NoInput} \cup
    {[NoInput EXCEPT !.page = page, !.limit = limit] :
        page \in 1..MaxPage, limit \in 1..MaxLimit}

NextMeta ==
    \/ Respond("r1")
    \/ \E h \in PageHeaders : AccessGate("r1", "getTodos", h)
    \/ \E in \in MetaQueries : GetTodos("r1", in)
    \/ GetTodosCount("r1")
    \/ GetTodosFind("r1")

SpecMeta == InitMeta /\ [][NextMeta]_vars

(***************************************************************************)
(* SpecSearch: the search of a list request.  u1 has one todo whose title  *)
(* is any of the texts, and searches for any of them.                      *)
(***************************************************************************)
SearchTexts == ShortTexts \cup {"50%_off", "50 percent off"}

InitSearch ==
    /\ env = [ACCESS_TOKEN_SECRET |-> "kA", REFRESH_TOKEN_SECRET |-> "kB",
              NODE_ENV |-> "development"]
    /\ clock = 0
    /\ users = TwoUsers
    /\ todos \in {{[id |-> "t1", user_id |-> "u1", title |-> t, updated_at |-> 0]} :
                    t \in SearchTexts}
    /\ reqs = [r \in Reqs |-> IdleReq]
    /\ rate = NoRate

\* Search strings around the maximal length: 255 times a, 256 times a, and
\* 255 times a followed by a space.
LongSearches == {"a*255", "a*256", "a*255 "}

\* ?search=..
SearchQueries == {[NoInput EXCEPT !.search = t] : t \in SearchTexts \cup LongSearches}

NextSearch ==
    \/ Respond("r1")
    \/ \E h \in PageHeaders : AccessGate("r1", "getTodos", h)
    \/ \E in \in SearchQueries : GetTodos("r1", in)
    \/ GetTodosCount("r1")
    \/ GetTodosFind("r1")

SpecSearch == InitSearch /\ [][NextSearch]_vars

(***************************************************************************)
(* SpecSignin: signin against a users table that also holds a row whose    *)
(* password column is no digest, as a row written by something other than  *)
(* signup or the seed script is (an import, a manual insert).              *)
(***************************************************************************)
LegacyUsers ==
    {[id |-> "u2", username |-> "carol",
      password |-> [alg |-> "none", plain |-> "password1"], created_at |-> 0]}

InitSignin ==
    /\ env \in ValidEnvs
    /\ clock = 0
    /\ users = SeedUsers \cup LegacyUsers
    /\ todos = {}
    /\ reqs = [r \in Reqs |-> IdleReq]
    /\ rate = NoRate

LegacySigninBodies ==
    {Body(u, p, Undef) : u \in {"alice", "carol", "bob"},
                         p \in {"password1", "password2", "short"}}

NextSignin ==
    \/ Tick
    \/ Respond("r1")
    \/ \E in \in LegacySigninBodies : Signin("r1", in)

SpecSignin == InitSignin /\ [][NextSignin]_vars

(***************************************************************************)
(* SpecLimits: one client, whose every request arrives through Arrive,     *)
(* calls the authentication routes and GET /todos/:todo_id; authLimiter    *)
(* was constructed with any of the limits of AuthMaxSettings.              *)
(***************************************************************************)
InitLimits ==
    /\ env = [ACCESS_TOKEN_SECRET |-> "kA", REFRESH_TOKEN_SECRET |-> "kB",
              NODE_ENV |-> "production"]
    /\ clock = 0
    /\ users = SeedUsers
    /\ todos = {}
    /\ reqs = [r \in Reqs |-> IdleReq]
    /\ rate \in {[NoRate EXCEPT !.max = m] : m \in AuthMaxSettings}

LimitSignupBodies ==
    {Body("alice", "password1", "password1"), Body("ab", "password1", "password1")}

LimitSigninBodies ==
    {Body("alice", "password1", Undef), Body("alice", "password2", Undef),
     Body("ab", "password1", Undef)}

LimitRefreshHeaders ==
    {NoHeaders, Headers(NoToken, generateRefreshToken("u1", env, clock), NoToken)}

Admitted(r) == reqs[r].pc = "admitted"

NextLimits ==
    \/ Tick
    \/ \E r \in Reqs : Respond(r)
    \/ \E r \in Reqs, route \in AuthRoutes \cup {"getTodo"} : Arrive(r, route)
    \/ \E r \in Reqs, in \in LimitSignupBodies : Admitted(r) /\ SignupFind(r, in)
    \/ \E r \in Reqs, in \in LimitSigninBodies : Admitted(r) /\ Signin(r, in)
    \/ \E r \in Reqs, h \in LimitRefreshHeaders : Admitted(r) /\ RefreshGate(r, h)
    \/ \E r \in Reqs : RefreshAccessToken(r)
    \/ \E r \in Reqs, h \in PageHeaders : Admitted(r) /\ AccessGate(r, "getTodo", h)
    \/ \E r \in Reqs : GetTodo(r, [NoInput EXCEPT !.todo_id = "t1"])

SpecLimits == InitLimits /\ [][NextLimits]_vars

(***************************************************************************)
(* Properties.                                                             *)
(***************************************************************************)
GatedRoutes == TodoRoutes \cup {"refresh"}

\* The slot q holds a request that went through a gate.
Gated(q) == q.pc # "idle" /\ q.route \in GatedRoutes

\* The header and the secret of the gate in front of q's route.
OwnToken(q) == IF q.route = "refresh" THEN q.hdr.xrefresh ELSE q.hdr.xaccess

OwnSecret(q) ==
    IF q.route = "refresh" THEN env.REFRESH_TOKEN_SECRET ELSE env.ACCESS_TOKEN_SECRET

OtherTokens(q) ==
    IF q.route = "refresh" THEN {q.hdr.xaccess, q.hdr.authorization}
    ELSE {q.hdr.xrefresh, q.hdr.authorization}

\* q was answered by the gate: 401 with the given message, no data.
RejectedWith(q, message) ==
    /\ q.gate = "rejected"
    /\ q.pc = "done"
    /\ q.res = Response(401, message, NullData)

\* C1: a getTodo, updateTodo or deleteTodo for the id of a todo that another
\* identity owns is answered exactly as the same request for an id that no
\* row has, and leaves the table as it was.
C1_OwnerScoping ==
    [][\A r \in Reqs :
         LET q == reqs[r]
             p == reqs'[r]
             missing == [p.in EXCEPT !.todo_id = MissingTodoId]
         IN  (/\ q.pc = "handler"
              /\ p.pc = "done"
              /\ q.route \in {"getTodo", "updateTodo", "deleteTodo"}
              /\ \E t \in todos : t.id = p.in.todo_id /\ t.user_id # q.user)
             => /\ todos' = todos
                /\ p.res = CASE q.route = "getTodo" -> getTodo(todos, q.user, missing).res
                             [] q.route = "updateTodo" ->
                                  updateTodo(todos, q.user, missing, clock).res
                             [] OTHER -> deleteTodo(todos, q.user, missing).res]_vars

\* A delete and an update of another identity's todo were answered 200 and
\* the todo is still in the table.
C1_Witness ==
    \E r \in Reqs :
        /\ reqs[r].pc = "done"
        /\ reqs[r].route \in {"deleteTodo", "updateTodo"}
        /\ reqs[r].res.status = 200
        /\ \E t \in todos : t.id = reqs[r].in.todo_id /\ t.user_id # reqs[r].user

\* tok is a token generateRefreshToken / generateAccessToken issued for id.
IsRefreshTokenOf(tok, id) ==
    \E t \in 0..MaxClock : tok = generateRefreshToken(id, env, t)

IsAccessTokenOf(tok, id) ==
    \E t \in 0..MaxClock : tok = generateAccessToken(id, env, t)

ReturnsToken(q) ==
    /\ q.pc = "done"
    /\ {"access_token", "refresh_token"} \cap DOMAIN q.res.data # {}

\* C2: every response that carries a token is that of a signin whose
\* username and password match a stored row, for that row's identity, or
\* that of a refresh request which passed the refresh gate with a refresh
\* token of the identity the new token carries.
C2_TokenProvenance ==
    \A r \in Reqs :
        LET q == reqs[r]
        IN  ReturnsToken(q) =>
              \/ /\ q.route = "signin"
                 /\ \E u \in users :
                       /\ u.username = q.in.username
                       /\ verifyPassword(u.password, q.in.password)
                       /\ q.res.data.access_token.id = u.id
                       /\ q.res.data.refresh_token.id = u.id
              \/ /\ q.route = "refresh"
                 /\ q.gate = "accepted"
                 /\ IsRefreshTokenOf(q.hdr.xrefresh, q.res.data.access_token.id)

\* C3: whatever secrets the environment validation accepted, the access
\* gate answers 401 to a token that generateRefreshToken issued and the
\* refresh gate answers 401 to a token that generateAccessToken issued.
C3_KindIsolation ==
    \A r \in Reqs :
        LET q == reqs[r]
        IN  Gated(q) =>
              /\ (q.route # "refresh" /\ \E id \in UserIds : IsRefreshTokenOf(q.hdr.xaccess, id))
                   => q.gate = "rejected" /\ q.res.status = 401
              /\ (q.route = "refresh" /\ \E id \in UserIds : IsAccessTokenOf(q.hdr.xrefresh, id))
                   => q.gate = "rejected" /\ q.res.status = 401

\* C4: a token signed with its gate's secret is answered 401 "Token
\* expired" when it is presented after its expiry time, and is accepted
\* when it is presented from its issue time up to the last instant before
\* its expiry time.
C4_Expiry ==
    \A r \in Reqs :
        LET q == reqs[r]
            tok == OwnToken(q)
        IN  (Gated(q) /\ tok.sig = OwnSecret(q)) =>
              /\ q.at > tok.exp => RejectedWith(q, "Token expired")
              /\ (tok.iat <= q.at /\ q.at < tok.exp) => q.gate = "accepted"

\* A refresh token was presented to the refresh gate after its expiry time.
C4_Witness ==
    \E r \in Reqs :
        /\ Gated(reqs[r])
        /\ reqs[r].route = "refresh"
        /\ reqs[r].hdr.xrefresh.sig = env.REFRESH_TOKEN_SECRET
        /\ reqs[r].at > reqs[r].hdr.xrefresh.exp
        /\ reqs[r].res.message = "Token expired"

\* C5: a request whose token header is absent or empty is answered 401 "No
\* token provided" by either gate; the verifier is not called, req.user is
\* not set and the handler does not run.
C5_NoToken ==
    \A r \in Reqs :
        LET q == reqs[r]
        IN  (Gated(q) /\ OwnToken(q).sig = Undef) =>
              /\ RejectedWith(q, "No token provided")
              /\ q.verifyCalls = 0
              /\ q.user = Undef
              /\ ~q.handlerRan

\* A request without any header was answered by the access gate.
C5_Witness ==
    \E r \in Reqs :
        /\ Gated(reqs[r])
        /\ reqs[r].route = "getTodo"
        /\ reqs[r].hdr = NoHeaders
        /\ reqs[r].res.status = 401

\* Errors that are no verification failures.
OtherErrors ==
    {HttpError(401, "No token provided"), Err("TypeError", 0, "x is not a function"),
     Err("Error", 500, "boom")}

\* C6: a token that fails verification is answered 401 by either gate,
\* "Invalid token" when its structure or its signature is bad and "Token
\* expired" when it is past its expiry, in every NODE_ENV; the catch blocks
\* hand on every other error as it is.
C6_VerificationFailures ==
    /\ \A r \in Reqs :
          LET q == reqs[r]
              tok == OwnToken(q)
          IN  (Gated(q) /\ tok.sig # Undef) =>
                /\ tok.sig # OwnSecret(q) => RejectedWith(q, "Invalid token")
                /\ (tok.sig = OwnSecret(q) /\ q.at >= tok.exp)
                      => RejectedWith(q, "Token expired")
    /\ \A e \in OtherErrors : AccessCatch(e) = e /\ RefreshCatch(e) = e

\* In production, a token signed with a foreign key and a string that is no
\* token were answered.
C6_Witness ==
    \E r \in Reqs :
        /\ Gated(reqs[r])
        /\ env.NODE_ENV = "production"
        /\ OwnToken(reqs[r]).sig \in {"kForged", "malformed"}
        /\ reqs[r].res.message = "Invalid token"

\* C7: a handler of a gated route has run only in a request its gate
\* accepted (requireAccessToken for the six todo handlers,
\* requireRefreshToken for refreshAccessToken); a request its gate rejected
\* is answered without its handler having run and without a data-access
\* call; the gate called next exactly once.
C7_GateBeforeHandler ==
    \A r \in Reqs :
        LET q == reqs[r]
        IN  Gated(q) =>
              /\ q.nextCalls = 1
              /\ q.gate \in {"accepted", "rejected"}
              /\ (q.handlerRan \/ q.dbCalls > 0 \/ q.pc \in {"handler", "getTodos2"})
                    => /\ q.gate = "accepted"
                       /\ IF q.route = "refresh"
                          THEN requireRefreshToken(q.hdr, env, q.at).accepted
                          ELSE requireAccessToken(q.hdr, env, q.at).accepted
              /\ q.gate = "rejected"
                    => q.pc = "done" /\ ~q.handlerRan /\ q.dbCalls = 0

\* One request was rejected by its gate while another, accepted, read the
\* table.
C7_Witness ==
    \E r, o \in Reqs :
        /\ reqs[r].gate = "rejected"
        /\ reqs[r].route \in TodoRoutes
        /\ reqs[o].gate = "accepted"
        /\ reqs[o].route = "getTodos"
        /\ reqs[o].dbCalls > 0

C9_RequestScopedIdentity ==
    \A r \in Reqs :
        LET q == reqs[r]
        IN  q.pc # "idle" =>
              IF q.gate = "accepted" THEN q.user = q.hdr.xaccess.id
              ELSE q.user = Undef

\* A request of u1 waits for its handler while one of u2, accepted after
\* it, has been handled.
C9_Witness ==
    \E r, o \in Reqs :
        /\ reqs[r].pc = "handler" /\ reqs[r].user = "u1"
        /\ reqs[o].pc = "done" /\ reqs[o].user = "u2" /\ reqs[o].handlerRan

\* C10: a deleteTodos with a list of one to fifty well-formed ids removes
\* the rows that are listed and the caller's, leaves every other row as it
\* was, and answers 200 without an error.
C10_BulkDelete ==
    [][\A r \in Reqs :
         LET q == reqs[r]
             ids == reqs'[r].in.ids
         IN  (/\ q.pc = "handler"
              /\ q.route = "deleteTodos"
              /\ reqs'[r].pc = "done"
              /\ ids # <<>>
              /\ Len(ids) <= MaxBulkIds
              /\ \A i \in 1..Len(ids) : ids[i] \in TodoIds)
             => /\ \A t \in todos :
                      t \in todos' <=> ~(t.id \in Range(ids) /\ t.user_id = q.user)
                /\ todos' \subseteq todos
                /\ reqs'[r].res = Response(200, "OK", NullData)]_vars

\* A bulk delete that listed two ids was answered 200; the listed todo of
\* the other identity is in the table, the other listed id is not.
C10_Witness ==
    \E r \in Reqs :
        /\ reqs[r].pc = "done"
        /\ reqs[r].route = "deleteTodos"
        /\ reqs[r].res.status = 200
        /\ Len(reqs[r].in.ids) = 2
        /\ \E t \in todos : t.id = reqs[r].in.ids[2] /\ t.user_id # reqs[r].user
        /\ \A t \in todos : t.id # reqs[r].in.ids[1]

\* C11: a deleteTodos whose list has more than fifty entries, or an entry
\* that is no well-formed identifier, is answered 400 and deletes nothing,
\* not even the caller's todos that the list names.
C11_BulkDeleteValidation ==
    [][\A r \in Reqs :
         LET q == reqs[r]
             ids == reqs'[r].in.ids
         IN  (/\ q.pc = "handler"
              /\ q.route = "deleteTodos"
              /\ reqs'[r].pc = "done"
              /\ \/ Len(ids) > MaxBulkIds
                 \/ \E i \in 1..Len(ids) : ids[i] \notin TodoIds \cup {MissingTodoId})
             => /\ reqs'[r].res.status = 400
                /\ todos' = todos]_vars

\* A list of fifty-one entries, and a list with one malformed entry, that
\* name a todo of the caller were answered 400; the todo is in the table.
C11_Witness ==
    \E r \in Reqs :
        /\ reqs[r].pc = "done"
        /\ reqs[r].route = "deleteTodos"
        /\ reqs[r].res.status = 400
        /\ Len(reqs[r].in.ids) > MaxBulkIds
        /\ \E t \in todos : t.id \in Range(reqs[r].in.ids) /\ t.user_id = reqs[r].user

\* C12: a well-formed signin for a username that no row has and one for
\* an existing username with a password that does not verify get the same
\* response: 401 "invalid credentials", no data, no token.
C12_NoUserEnumeration ==
    \A r \in Reqs :
        LET q == reqs[r]
        IN  (/\ q.pc = "done"
             /\ q.route = "signin"
             /\ signinSchema(q.in) = ""
             /\ ~\E u \in users : /\ u.username = q.in.username
                                  /\ u.password = hashPassword(q.in.password))
            => q.res = Response(401, "invalid credentials", NullData)

\* A signin with alice's username and a password that is not hers was
\* answered.
C12_Witness ==
    \E r \in Reqs :
        /\ reqs[r].pc = "done"
        /\ reqs[r].route = "signin"
        /\ reqs[r].in.username = "alice"
        /\ reqs[r].in.password = "password2"
        /\ reqs[r].res.status = 401

\* A signin with a username that no row has was answered.
C12_WitnessUnknown ==
    \E r \in Reqs :
        /\ reqs[r].pc = "done"
        /\ reqs[r].route = "signin"
        /\ reqs[r].in.username = "bob"
        /\ reqs[r].in.password = "password1"
        /\ ~\E u \in users : u.username = "bob"
        /\ reqs[r].res.status = 401

\* The bodies signupSchema must refuse: a username or password that is
\* missing or outside its length limits, a confirmation that differs.
InvalidSignup(in) ==
    \/ in.username = Undef
    \/ StrLen(in.username) < UsernameMinLen
    \/ StrLen(in.username) > UsernameMaxLen
    \/ in.password = Undef
    \/ StrLen(in.password) < PasswordMinLen
    \/ StrLen(in.password) > PasswordMaxLen
    \/ in.confirmation_password # in.password

Listed(q) == q.pc = "done" /\ q.route = "getTodos" /\ q.res.status = 200

\* The rows of tbl that a read called with args is about.
Population(tbl, args) ==
    {t \in tbl :
        /\ t.user_id = args.user_id
        /\ args.search # <<>>
              => Ilike(Chars(t.title), <<"%">> \o args.search \o <<"%">>)}

\* rows is the part from position offset + 1 to offset + limit of the
\* rows of set, put in the order that args asks for.
IsPageOf(rows, set, args) ==
    LET n == Cardinality(set)
    IN  \E s \in [1..n -> set] :
          /\ \A i, j \in 1..n : i # j => s[i] # s[j]
          /\ \A i, j \in 1..n :
                i < j => IF args.order = "asc"
                         THEN SortKey(s[i], args.column) <= SortKey(s[j], args.column)
                         ELSE SortKey(s[i], args.column) >= SortKey(s[j], args.column)
          /\ Len(rows) = (IF args.offset >= n THEN 0
                          ELSE IF args.limit < n - args.offset THEN args.limit
                          ELSE n - args.offset)
          /\ \A k \in 1..Len(rows) : rows[k] = TodoColumns(s[args.offset + k])

\* C14: the count and the fetch of a list request are called with the same
\* conditions and the same search filter; when the table was the same at
\* both reads, total_items is the number of rows of the population the
\* page is drawn from, and the page is the rows at positions offset + 1 to
\* offset + limit of that population in the requested order.
C14_SameFilter ==
    \A r \in Reqs :
        LET q == reqs[r]
        IN  Listed(q) =>
              /\ q.countArgs.user_id = q.findArgs.user_id
              /\ q.countArgs.search = q.findArgs.search
              /\ q.countArgs.searchColumns = q.findArgs.searchColumns
              /\ q.countFrom = q.rowsFrom =>
                    /\ q.res.data.pagination.total_items
                         = Cardinality(Population(q.rowsFrom, q.findArgs))
                    /\ IsPageOf(q.res.data.todos,
                                Population(q.rowsFrom, q.findArgs), q.findArgs)

\* A search for "a" in a table where u1 has a todo "a" and a todo "b", read
\* twice without a write in between, was answered with one item.
C14_Witness ==
    \E r \in Reqs :
        /\ Listed(reqs[r])
        /\ reqs[r].countFrom = reqs[r].rowsFrom
        /\ reqs[r].findArgs.search = <<"a">>
        /\ Cardinality({t \in reqs[r].rowsFrom : t.user_id = reqs[r].user}) = 2
        /\ reqs[r].res.data.pagination.total_items = 1
        /\ Len(reqs[r].res.data.todos) = 1

\* A write came between the two reads of a list request.
C14_WitnessWrite ==
    \E r \in Reqs : Listed(reqs[r]) /\ reqs[r].countFrom # reqs[r].rowsFrom

\* The page and the limit a list request asked for, with the defaults of
\* the schema for what it did not send.
AskedPage(q) == IF q.in.page = -1 THEN 1 ELSE q.in.page

AskedLimit(q) == IF q.in.limit = -1 THEN 10 ELSE q.in.limit

\* C15: for every page from 1 on and every limit from 1 to 100, the fetch
\* is called with that limit and with offset (page - 1) * limit, which is 0
\* for page 1.
C15_OffsetLaw ==
    \A r \in Reqs :
        LET q == reqs[r]
        IN  (q.route = "getTodos" /\ q.rowsRead
             /\ AskedPage(q) >= 1 /\ AskedLimit(q) \in 1..100)
            => /\ q.findArgs.limit = AskedLimit(q)
               /\ q.findArgs.offset = (AskedPage(q) - 1) * AskedLimit(q)
               /\ AskedPage(q) = 1 => q.findArgs.offset = 0

\* Page 3 with limit 100 was fetched at offset 200.
C15_Witness ==
    \E r \in Reqs :
        /\ reqs[r].route = "getTodos"
        /\ reqs[r].rowsRead
        /\ reqs[r].in.page = 3
        /\ reqs[r].in.limit = 100
        /\ reqs[r].findArgs.offset = 200

\* C16: total_pages is total_items / limit rounded up (the least number of
\* pages of that size that hold all items), 0 when there is no item;
\* total_items is the count that was read and items_per_page the limit.
C16_TotalPages ==
    \A r \in Reqs :
        LET q == reqs[r]
            meta == q.res.data.pagination
        IN  Listed(q) =>
              /\ meta.total_items = q.count
              /\ meta.total_items = Cardinality({t \in q.countFrom : t.user_id = q.user})
              /\ meta.items_per_page = AskedLimit(q)
              /\ meta.total_pages * AskedLimit(q) >= meta.total_items
              /\ meta.total_pages = 0 \/ (meta.total_pages - 1) * AskedLimit(q) < meta.total_items
              /\ meta.total_items = 0 => meta.total_pages = 0

\* Twelve items in pages of five make three pages, and no item makes none.
C16_Witness ==
    \E r \in Reqs :
        /\ Listed(reqs[r])
        /\ reqs[r].in.limit = 5
        /\ reqs[r].res.data.pagination.total_items = 12
        /\ reqs[r].res.data.pagination.total_pages = 3

\* C17: has_next_page holds exactly when current_page < total_pages and
\* has_previous_page exactly when current_page > 1; next_page is
\* current_page + 1 or null, previous_page is current_page - 1 or null
\* (null is 0 here).
C17_Neighbours ==
    \A r \in Reqs :
        LET q == reqs[r]
            meta == q.res.data.pagination
        IN  Listed(q) =>
              /\ meta.current_page = AskedPage(q)
              /\ meta.has_next_page <=> meta.current_page < meta.total_pages
              /\ meta.has_previous_page <=> meta.current_page > 1
              /\ meta.next_page = IF meta.has_next_page THEN meta.current_page + 1 ELSE 0
              /\ meta.previous_page
                   = IF meta.has_previous_page THEN meta.current_page - 1 ELSE 0

\* Page 2 with limit 5 of twelve rows.
C17_Witness ==
    \E r \in Reqs :
        /\ Listed(reqs[r])
        /\ reqs[r].res.data.pagination
             = [current_page |-> 2, total_pages |-> 3, total_items |-> 12,
                items_per_page |-> 5, has_next_page |-> TRUE,
                has_previous_page |-> TRUE, next_page |-> 3, previous_page |-> 1]

\* s occurs in t as a substring when case is ignored.
OccursIn(s, t) ==
    \E k \in 0..(Len(t) - Len(s)) :
        \A i \in 1..Len(s) : Lower(t[k + i]) = Lower(s[i])

\* C18: a search string, whatever characters it has (%, _ and \ among
\* them), finds a todo exactly when the string occurs in its title as a
\* substring, case ignored, and total_items counts exactly those todos.
C18_LiteralSearch ==
    \A r \in Reqs :
        LET q == reqs[r]
            hits == {t \in q.rowsFrom :
                       t.user_id = q.user /\ OccursIn(Chars(q.in.search), Chars(t.title))}
        IN  (Listed(q) /\ q.in.search \in SearchTexts) =>
              /\ {q.res.data.todos[k] : k \in 1..Len(q.res.data.todos)}
                   = {TodoColumns(t) : t \in hits}
              /\ q.res.data.pagination.total_items = Cardinality(hits)

\* The search 50%_off did not find the title "50 percent off", which the
\* same characters read as a pattern would match.
C18_Witness ==
    \E r \in Reqs :
        /\ Listed(reqs[r])
        /\ reqs[r].in.search = "50%_off"
        /\ \E t \in reqs[r].rowsFrom : t.title = "50 percent off"
        /\ reqs[r].res.data.pagination.total_items = 0
        /\ reqs[r].res.data.todos = <<>>
        /\ Ilike(Chars("50 percent off"), <<"%">> \o Chars("50%_off") \o <<"%">>)

\* The search 50%_off found the title 50%_off.
C18_WitnessLiteral ==
    \E r \in Reqs :
        /\ Listed(reqs[r])
        /\ reqs[r].in.search = "50%_off"
        /\ \E t \in reqs[r].rowsFrom : t.title = "50%_off"
        /\ Len(reqs[r].res.data.todos) = 1

\* The slot q holds a list request whose handler has started.
ListStarted(q) == q.pc # "idle" /\ q.route = "getTodos" /\ q.handlerRan

\* C19: a list request whose sort_by is none of updated_at and title is
\* answered 400 and nothing is fetched for it; the column a fetch is
\* called with is one of the two, and is the one asked for if one was.
C19_SortColumn ==
    \A r \in Reqs :
        LET q == reqs[r]
        IN  ListStarted(q) =>
              /\ q.in.sort_by \notin {Undef, "updated_at", "title"}
                    => /\ q.pc = "done"
                       /\ q.res.status = 400
                       /\ ~q.rowsRead
                       /\ q.findArgs.column = Undef
              /\ q.rowsRead
                    => /\ q.findArgs.column \in {"updated_at", "title"}
                       /\ q.in.sort_by # Undef => q.findArgs.column = q.in.sort_by

\* A request with sort_by=id and nothing else wrong was answered 400.
C19_Witness ==
    \E r \in Reqs :
        /\ ListStarted(reqs[r])
        /\ reqs[r].in.sort_by = "id"
        /\ reqs[r].in.page = 2
        /\ reqs[r].in.limit = 1
        /\ reqs[r].in.sort_order = "asc"
        /\ reqs[r].res.status = 400

\* C20: a list request whose page is below 1 or whose limit is not within
\* 1..100 is answered 400 without the count or the fetch being called.
C20_FailFast ==
    \A r \in Reqs :
        LET q == reqs[r]
        IN  (ListStarted(q) /\ (AskedPage(q) < 1 \/ AskedLimit(q) \notin 1..100))
            => /\ q.pc = "done"
               /\ q.res.status = 400
               /\ q.dbCalls = 0
               /\ q.count = -1
               /\ ~q.rowsRead

\* A request with limit=101 and nothing else wrong was answered 400.
C20_Witness ==
    \E r \in Reqs :
        /\ ListStarted(reqs[r])
        /\ reqs[r].in.limit = 101
        /\ reqs[r].in.page = 2
        /\ reqs[r].in.sort_by = "title"
        /\ reqs[r].in.sort_order = "asc"
        /\ reqs[r].res.status = 400
        /\ reqs[r].dbCalls = 0

\* C21: a list request whose search string, as the client sent it, has
\* more than 255 characters is answered 400 and nothing is read for it.
C21_LongSearchRejected ==
    \A r \in Reqs :
        LET q == reqs[r]
        IN  (ListStarted(q) /\ q.in.search # Undef /\ StrLen(q.in.search) > SearchMaxLen)
            => /\ q.pc = "done"
               /\ q.res.status = 400
               /\ q.dbCalls = 0

\* What holds instead: a search string that still has more than 255
\* characters after its surrounding white space is removed is answered 400.
C21_LongTrimmedSearchRejected ==
    \A r \in Reqs :
        LET q == reqs[r]
        IN  (/\ ListStarted(q)
             /\ q.in.search # Undef
             /\ StrLen(Trimmed(q.in.search)) > SearchMaxLen)
            => /\ q.pc = "done"
               /\ q.res.status = 400
               /\ q.dbCalls = 0

\* A search string of 256 characters was answered 200, after a search for
\* its first 255 characters.
C21_AcceptedShortened ==
    \E r \in Reqs :
        /\ Listed(reqs[r])
        /\ StrLen(reqs[r].in.search) = SearchMaxLen + 1
        /\ Len(reqs[r].findArgs.search) = SearchMaxLen

\* C22: a refresh request that passed the refresh gate with a refresh token
\* of identity i is answered 200 with one token and nothing else, under
\* access_token; the access gate accepts that token, for identity i; the
\* token is not one that generateRefreshToken issues; users and todos stay
\* as they were.
C22_RefreshIssuesAccessOnly ==
    [][\A r \in Reqs :
         LET q == reqs[r]
             a == reqs'[r]
         IN  (/\ q.pc = "handler"
              /\ q.route = "refresh"
              /\ a.pc = "done"
              /\ q.gate = "accepted"
              /\ IsRefreshTokenOf(q.hdr.xrefresh, q.user))
             => /\ a.res.status = 200
                /\ DOMAIN a.res.data = {"access_token"}
                /\ requireAccessToken(Headers(a.res.data.access_token, NoToken, NoToken),
                                      env', clock').accepted
                /\ requireAccessToken(Headers(a.res.data.access_token, NoToken, NoToken),
                                      env', clock').user = q.user
                /\ \A id \in UserIds : ~IsRefreshTokenOf(a.res.data.access_token, id)
                /\ users' = users
                /\ todos' = todos]_vars

\* A refresh request that presented a refresh token of u1, issued under
\* secrets that differ, was answered with an access token of u1.
C22_Witness ==
    \E r \in Reqs :
        /\ reqs[r].pc = "done"
        /\ reqs[r].route = "refresh"
        /\ env.ACCESS_TOKEN_SECRET # env.REFRESH_TOKEN_SECRET
        /\ IsRefreshTokenOf(reqs[r].hdr.xrefresh, "u1")
        /\ reqs[r].res.status = 200
        /\ reqs[r].res.data.access_token.id = "u1"

\* C23: whatever requests came before, a gate accepts a request exactly
\* when the token in its header is signed with the gate's secret and the
\* clock has not reached the token's expiry; it then binds the token's
\* identity.
C23_StatelessGate ==
    \A r \in Reqs :
        LET q == reqs[r]
            tok == OwnToken(q)
        IN  Gated(q) =>
              /\ q.gate = "accepted"
                   <=> (tok # NoToken /\ tok.sig = OwnSecret(q) /\ q.at < tok.exp)
              /\ q.gate = "accepted" => q.user = tok.id

\* A gate accepted a token although a user signed up after the token was
\* issued.
C23_Witness ==
    \E r \in Reqs :
        /\ Gated(reqs[r])
        /\ reqs[r].gate = "accepted"
        /\ \E u \in users : u.created_at > OwnToken(reqs[r]).iat

\* The slot q was answered for an error that is no HttpError: the body
\* parser's, or the one the insert of signup threw after the hash.
UnclassifiedError(q) ==
    /\ q.pc = "done"
    /\ \/ q.route = "express.json"
       \/ q.route = "signup" /\ q.credCalls > 0 /\ q.res.status >= 400

\* C24: an error that is no HttpError is answered 500 "Internal Server
\* Error", and every error response has a message and null data only.
C24_GenericInternalError ==
    \A r \in Reqs :
        LET q == reqs[r]
        IN  /\ UnclassifiedError(q)
               => q.res = Response(500, "Internal Server Error", NullData)
            /\ (q.pc = "done" /\ q.res.status >= 400)
               => /\ DOMAIN q.res = {"status", "message", "data"}
                  /\ q.res.data = NullData

\* What holds instead: every error response has a message and null data
\* only; an error that is no HttpError is answered with its own status if
\* it has one and with 500 otherwise, and in production with the generic
\* message.
C24_ErrorBody ==
    \A r \in Reqs :
        LET q == reqs[r]
        IN  /\ (q.pc = "done" /\ q.res.status >= 400)
               => /\ DOMAIN q.res = {"status", "message", "data"}
                  /\ q.res.data = NullData
            /\ UnclassifiedError(q)
               => /\ q.res.status = (IF q.route = "express.json" THEN 400 ELSE 500)
                  /\ env.NODE_ENV = "production"
                        => q.res.message = "Internal Server Error"

\* Outside production, the message of an error that is no HttpError was
\* sent to the client.
C24_MessageSent ==
    \E r \in Reqs :
        /\ UnclassifiedError(reqs[r])
        /\ env.NODE_ENV # "production"
        /\ reqs[r].res.status = 500
        /\ reqs[r].res.message = "duplicate key value violates unique constraint"

\* The todos of its caller that the bulk delete in slot q listed, in the
\* table its statement ran on.
ListedOwn(q) ==
    {t \in q.rowsFrom : t.id \in Range(q.in.ids) /\ t.user_id = q.user}

\* C25, as stated: a bulk delete issues one delete per identifier, so that
\* no step of the server removes more than one todo and an answered bulk
\* delete has made as many data-access calls as its list has identifiers.
C25_OneDeletePerIdentifier ==
    [][/\ Cardinality(todos \ todos') <= 1
       /\ \A r \in Reqs :
            (/\ reqs[r].pc = "handler"
             /\ reqs[r].route = "deleteTodos"
             /\ reqs'[r].res.status = 200)
            => reqs'[r].dbCalls = reqs[r].dbCalls + Len(reqs'[r].in.ids)]_vars

\* C25, amended: a bulk delete issues one delete for the whole list.  The
\* step that answers it is its only data-access call and removes all the
\* listed todos of the caller at once; no other step removes a todo for it
\* (a todo disappears only in the answering step of a delete request), so
\* no state has some but not all of them removed.
C25_SingleStatement ==
    [][/\ \A r \in Reqs :
            LET q == reqs[r]
                a == reqs'[r]
            IN  (q.route = "deleteTodos" /\ q.pc = "handler" /\ a.pc = "done"
                   /\ a.res.status = 200)
                => /\ a.dbCalls = q.dbCalls + 1
                   /\ a.rowsFrom = todos
                   /\ todos' = todos \ ListedOwn(a)
       /\ {t.id : t \in todos} \ {t.id : t \in todos'} # {}
            => \E r \in Reqs :
                  /\ reqs[r].pc = "handler"
                  /\ reqs'[r].pc = "done"
                  /\ reqs[r].route \in {"deleteTodo", "deleteTodos"}]_vars

\* A bulk delete that listed two todos of its caller was answered 200 after
\* one data-access call; both were in the table before and neither is now.
C25_Witness ==
    \E r \in Reqs :
        /\ reqs[r].pc = "done"
        /\ reqs[r].route = "deleteTodos"
        /\ reqs[r].res.status = 200
        /\ reqs[r].dbCalls = 1
        /\ Cardinality(ListedOwn(reqs[r])) = 2
        /\ ListedOwn(reqs[r]) \cap todos = {}

\* The slot q holds an answered signin, with a valid body, for a username
\* whose row has a password column that is no digest.
MalformedDigestSignin(q) ==
    /\ q.pc = "done"
    /\ q.route = "signin"
    /\ signinSchema(q.in) = ""
    /\ \E u \in users : u.username = q.in.username /\ verifyPasswordThrows(u.password)

\* C26: a signin for a user whose stored digest is malformed is answered
\* 401 "invalid credentials" without a token, as is a signin with a wrong
\* password for a user whose digest is well-formed.
C26_MalformedDigestIs401 ==
    \A r \in Reqs :
        LET q == reqs[r]
        IN  /\ MalformedDigestSignin(q)
               => q.res = Response(401, "invalid credentials", NullData)
            /\ (/\ q.pc = "done"
                /\ q.route = "signin"
                /\ signinSchema(q.in) = ""
                /\ \E u \in users :
                      /\ u.username = q.in.username
                      /\ ~verifyPasswordThrows(u.password)
                      /\ ~verifyPassword(u.password, q.in.password))
               => q.res = Response(401, "invalid credentials", NullData)

\* What holds of such a signin: it is answered 500 without a token, and a
\* wrong password for a well-formed digest is answered 401.
C26_MalformedDigestIs500 ==
    \A r \in Reqs :
        LET q == reqs[r]
        IN  /\ MalformedDigestSignin(q)
               => /\ q.res.status = 500
                  /\ q.res.data = NullData
            /\ (/\ q.pc = "done"
                /\ q.route = "signin"
                /\ signinSchema(q.in) = ""
                /\ \E u \in users :
                      /\ u.username = q.in.username
                      /\ ~verifyPasswordThrows(u.password)
                      /\ ~verifyPassword(u.password, q.in.password))
               => q.res = Response(401, "invalid credentials", NullData)

\* A signin for the user whose digest is malformed was answered 500.
C26_InternalError ==
    \E r \in Reqs :
        /\ MalformedDigestSignin(reqs[r])
        /\ reqs[r].res.status = 500

\* The step is the arrival of a request in slot r.
Arrives(r) == reqs[r].pc = "idle" /\ reqs'[r].pc \in {"admitted", "done"}
                /\ reqs'[r].route \in AuthRoutes \cup TodoRoutes

TooManyRequests == Response(429, "Too many requests, please try again later", NullData)

\* C27: on every route under /api, a request of a client that has already
\* made RATE_LIMIT_GENERAL_MAX requests within the window is answered 429.
\* (Requests that arrive at the same instant are within one window.)
C27_GeneralLimit ==
    [][\A r \in Reqs :
         (Arrives(r) /\ rate'.made > RateLimitGeneralMax)
         => (reqs'[r].pc = "done" /\ reqs'[r].res.status = 429)]_vars

\* A request for a todo route was let through to the access gate although
\* the client had made more than RATE_LIMIT_GENERAL_MAX requests at the
\* same instant.
C27_TodosUnlimited ==
    \E r \in Reqs :
        /\ reqs[r].pc = "admitted"
        /\ reqs[r].route \in TodoRoutes
        /\ rate.madeAt = clock
        /\ rate.made > RateLimitGeneralMax

\* The limit the environment validation gives authLimiter to apply: the
\* value of RATE_LIMIT_AUTH_MAX, 10 when the variable is not set.
ValidatedAuthMax == IF rate.max = NaN THEN DefaultAuthMax ELSE rate.max

\* C28: signup, signin and refresh share one counter per client.  A request
\* to one of them is counted when it arrives, whatever becomes of it; the
\* count starts again at 1 with the first request after the window has
\* ended; a request whose count is at most RATE_LIMIT_AUTH_MAX (10 by
\* default) goes on to the gate or the handler, and every other request is
\* answered 429 "Too many requests, please try again later" without the
\* gate or the handler being run.
C28_AuthLimit ==
    [][\A r \in Reqs :
         (Arrives(r) /\ reqs'[r].route \in AuthRoutes)
         => /\ rate'.count = (IF clock >= rate.resetAt THEN 1 ELSE rate.count + 1)
            /\ rate'.count <= ValidatedAuthMax => reqs'[r].pc = "admitted"
            /\ rate'.count > ValidatedAuthMax
                 => /\ reqs'[r].pc = "done"
                    /\ reqs'[r].res = TooManyRequests
                    /\ reqs'[r].gate = "none"
                    /\ reqs'[r].verifyCalls = 0
                    /\ ~reqs'[r].handlerRan]_vars

\* What holds: the same, for the limit authLimiter was constructed with,
\* when RATE_LIMIT_AUTH_MAX was set in the environment of the process.
C28_AuthLimitWhenSet ==
    [][\A r \in Reqs :
         (Arrives(r) /\ reqs'[r].route \in AuthRoutes /\ rate.max # NaN)
         => /\ rate'.count = (IF clock >= rate.resetAt THEN 1 ELSE rate.count + 1)
            /\ rate'.count <= rate.max => reqs'[r].pc = "admitted"
            /\ rate'.count > rate.max
                 => /\ reqs'[r].pc = "done"
                    /\ reqs'[r].res = TooManyRequests
                    /\ reqs'[r].gate = "none"
                    /\ reqs'[r].verifyCalls = 0
                    /\ ~reqs'[r].handlerRan]_vars

\* With RATE_LIMIT_AUTH_MAX not set, the eleventh request of a window was
\* let through to an authentication route.
C28_EleventhAdmitted ==
    \E r \in Reqs :
        /\ reqs[r].pc = "admitted"
        /\ reqs[r].route \in AuthRoutes
        /\ rate.max = NaN
        /\ rate.count > DefaultAuthMax

\* With RATE_LIMIT_AUTH_MAX set to 2, the third request of a window was
\* answered 429.
C28_ThirdBlocked ==
    \E r \in Reqs :
        /\ reqs[r].pc = "done"
        /\ reqs[r].res = TooManyRequests
        /\ rate.max = 2
        /\ rate.count = 3

\* C29: the users table holds at most one row per username, and a signup
\* with a valid body is answered 201, or 400 "user with the given username
\* already exists" when the username is taken, also when it was taken
\* between the signup's lookup and its insert.
C29_OneRowPerUsername ==
    /\ \A u, v \in users : u.username = v.username => u = v
    /\ \A r \in Reqs :
         LET q == reqs[r]
         IN  (q.pc = "done" /\ q.route = "signup" /\ signupSchema(q.in) = "")
             => \/ q.res.status = 201
                \/ q.res = Response(400, "user with the given username already exists",
                                    NullData)

\* What holds: a signup whose lookup finds the username is answered 400
\* with that message and inserts nothing.
C29_TakenAtLookup ==
    [][\A r \in Reqs :
         (/\ reqs[r].pc = "idle"
          /\ reqs'[r].route = "signup"
          /\ reqs'[r].pc # "idle"
          /\ signupSchema(reqs'[r].in) = ""
          /\ UsersWhereUsername(users, reqs'[r].in.username) # {})
         => /\ reqs'[r].pc = "done"
            /\ reqs'[r].res = Response(400, "user with the given username already exists",
                                       NullData)
            /\ users' = users]_vars

\* Two signups for the same username overlapped, and the table holds two
\* rows with that username (no unique index rejected the second insert).
C29_TwoRows ==
    \E u, v \in users : u.username = v.username /\ u # v

\* Two signups for the same username overlapped, and the second insert was
\* rejected by the database: the signup was answered with an internal error.
C29_SecondIs500 ==
    \E r \in Reqs :
        /\ reqs[r].pc = "done"
        /\ reqs[r].route = "signup"
        /\ reqs[r].credCalls > 0
        /\ reqs[r].res.status = 500

\* C30: every step that changes the todos table is the answering step of
\* one request, and every row it adds, changes or removes has the user_id
\* of that request's identity, whatever the body names as owner or
\* identifier; a row that stays keeps its id and its user_id.
C30_OwnershipFixed ==
    [][todos' # todos =>
        \E r \in Reqs :
          /\ reqs[r].pc = "handler"
          /\ reqs'[r].pc = "done"
          /\ \A t \in (todos \ todos') \cup (todos' \ todos) : t.user_id = reqs[r].user
          /\ \A t \in todos, n \in todos' : t.id = n.id => t.user_id = n.user_id
          /\ reqs[r].route = "createTodo"
               => /\ todos \subseteq todos'
                  /\ \A n \in todos' \ todos : n.id \notin {t.id : t \in todos}]_vars

\* u1 created a todo with a body that names u2 as owner and t3 as
\* identifier; the row that was stored belongs to u1 and has the identifier
\* the server drew.
C30_Witness ==
    \E r \in Reqs :
        /\ reqs[r].pc = "done"
        /\ reqs[r].route = "createTodo"
        /\ reqs[r].user = "u1"
        /\ reqs[r].in.user_id = "u2"
        /\ reqs[r].res.status = 201
        /\ \E t \in todos :
              /\ {TodoColumns(t)} = reqs[r].res.data.todo
              /\ t.user_id = "u1"
              /\ t.id # reqs[r].in.id

====
